---- MODULE Spec2Model ----
(***************************************************************************)
(* Recurrence-rule engine (rrule, bundled in main.js) and its adapter      *)
(* (src/repeat.ts): calendar clock, option resolution, occurrence          *)
(* iterator, query cache and set composer, modelled as a state machine.    *)
(*                                                                         *)
(* A Date is a record [d, t]: d = days since 1970-01-01 (the ordinal of    *)
(* dateutil.toOrdinal), t = milliseconds into that UTC day.  A Time is the *)
(* number of milliseconds Time.getTime() returns.  null is NULL for        *)
(* numbers, NullDate for dates, NL for lists and NLP for lists of pairs.   *)
(***************************************************************************)
EXTENDS Integers, Sequences, FiniteSets, TLC

VARIABLES rule, qdates, it, log, budget, rset, slog, sbudget, adapter, tasklist

vars == <<rule, qdates, it, log, budget, rset, slog, sbudget, adapter, tasklist>>

ruleVars == <<rule, qdates, it, log, budget>>
setVars == <<rset, slog, sbudget>>

-----------------------------------------------------------------------------
(* Bounds of the model                                                     *)

MaxCalls == 3
MaxSetOps == 4
MaxNext == 2
MaxAdapterOps == 3
MaxSubOps == 5

-----------------------------------------------------------------------------
(* Program constants                                                       *)

MAXYEAR == 9999
YEARLY == 0
MONTHLY == 1
WEEKLY == 2
DAILY == 3
HOURLY == 4
MINUTELY == 5
SECONDLY == 6
ONE_DAY == 86400000

NULL == 0 - 999
NullDate == [d |-> NULL, t |-> NULL]
NL == <<NULL>>
NLP == << <<NULL, NULL>> >>

-----------------------------------------------------------------------------
(* helpers of src/main.js                                                  *)

isPresentL(l) == ~(Len(l) = 1 /\ l[1] = NULL)
isPresentP(l) == ~(Len(l) = 1 /\ l[1][1] = NULL)

empty(l) == ~isPresentL(l) \/ Len(l) = 0
notEmpty(l) == ~empty(l)
emptyP(l) == ~isPresentP(l) \/ Len(l) = 0
notEmptyP(l) == ~emptyP(l)

includes(arr, val) == notEmpty(arr) /\ \E i \in 1..Len(arr) : arr[i] = val

pymod(a, b) == a % b

floorDiv(a, b) == a \div b

Range(s) == {s[i] : i \in DOMAIN s}

-----------------------------------------------------------------------------
(* dateutil                                                                *)

isLeapYear(year) == (year % 4 = 0 /\ year % 100 # 0) \/ year % 400 = 0

MONTH_DAYS == <<31, 28, 31, 30, 31, 30, 31, 31, 30, 31, 30, 31>>

(* monthRange(year, month)[1], month given 1-based here *)
monthRange(year, month) ==
    IF month = 2 /\ isLeapYear(year) THEN 29 ELSE MONTH_DAYS[month]

M365RANGE == <<0, 31, 59, 90, 120, 151, 181, 212, 243, 273, 304, 334, 365>>
M366RANGE == <<0, 31, 60, 91, 121, 152, 182, 213, 244, 274, 305, 335, 366>>

LeapsBefore(year) ==
    ((year - 1) \div 4) - ((year - 1) \div 100) + ((year - 1) \div 400)

(* toOrdinal(new Date(Date.UTC(year, 0, 1))) *)
YearOrdinal(year) == 365 * (year - 1970) + LeapsBefore(year) - LeapsBefore(1970)

mrangeOf(year) == IF isLeapYear(year) THEN M366RANGE ELSE M365RANGE

(* toOrdinal(new Date(Date.UTC(year, month - 1, day))): Date.UTC carries a *)
(* day beyond the month's end into the following months.                   *)
toOrdinal(year, month, day) ==
    YearOrdinal(year) + mrangeOf(year)[month] + (day - 1)

(* getWeekday: Monday = 0; 1970-01-01 was a Thursday *)
getWeekday(ord) == (ord + 3) % 7

TimeOf(hour, minute, second, millisecond) ==
    ((hour * 60 * 60 + minute * 60 + second) * 1000) + millisecond

(* dateutil.combine(dateutil.fromOrdinal(ord), time) *)
combine(ord, time) == [d |-> ord + (time \div ONE_DAY), t |-> time % ONE_DAY]

DateLt(a, b) == a.d < b.d \/ (a.d = b.d /\ a.t < b.t)
DateLe(a, b) == a = b \/ DateLt(a, b)

(* new Date(x.getTime() + ms) for a small ms                               *)
DatePlus(x, ms) ==
    LET t == x.t + ms
    IN  [d |-> x.d + (t \div ONE_DAY), t |-> t % ONE_DAY]

(* String(date): the text of a Date carries no milliseconds                *)
DateString(x) == [d |-> x.d, t |-> x.t \div 1000]

(* the Date of a DateTime's fields: DateTime.prototype.getTime             *)
DateOf(c) ==
    [d |-> toOrdinal(c.year, c.month, c.day),
     t |-> TimeOf(c.hour, c.minute, c.second, c.millisecond)]

RECURSIVE InsertSorted(_, _)
InsertSorted(s, x) ==
    IF Len(s) = 0 THEN <<x>>
    ELSE IF DateLt(x, s[Len(s)]) THEN
             Append(InsertSorted(SubSeq(s, 1, Len(s) - 1), x), s[Len(s)])
         ELSE Append(s, x)

RECURSIVE sortDates(_)
(* dateutil.sort: Array.prototype.sort by getTime, stable                  *)
sortDates(s) ==
    IF Len(s) = 0 THEN <<>>
    ELSE InsertSorted(sortDates(SubSeq(s, 1, Len(s) - 1)), s[Len(s)])

RECURSIVE InsertInt(_, _)
InsertInt(s, x) ==
    IF Len(s) = 0 THEN <<x>>
    ELSE IF x < s[Len(s)] THEN
             Append(InsertInt(SubSeq(s, 1, Len(s) - 1), x), s[Len(s)])
         ELSE Append(s, x)

RECURSIVE sortTimes(_)
sortTimes(s) ==
    IF Len(s) = 0 THEN <<>>
    ELSE InsertInt(sortTimes(SubSeq(s, 1, Len(s) - 1)), s[Len(s)])

-----------------------------------------------------------------------------
(* Date masks: the masks and baseYearMasks of src/main.js.    A day of the *)
(* year is its 0-based index i; every mask runs 7 days into the next year. *)

yearlenOf(year) == IF isLeapYear(year) THEN 366 ELSE 365

(* M365MASK / M366MASK *)
mmask(year, i) ==
    IF i >= yearlenOf(year) THEN 1
    ELSE CHOOSE m \in 1..12 : mrangeOf(year)[m] <= i /\ i < mrangeOf(year)[m + 1]

(* MDAY365MASK / MDAY366MASK *)
mdaymask(year, i) ==
    IF i >= yearlenOf(year) THEN i - yearlenOf(year) + 1
    ELSE i - mrangeOf(year)[mmask(year, i)] + 1

(* the negative day of the month counted from 0 at the last day            *)
nmdaymaskFromZero(year, i) ==
    IF i >= yearlenOf(year) THEN (i - yearlenOf(year)) - 30
    ELSE i - mrangeOf(year)[mmask(year, i) + 1] + 1

(* NMDAY365MASK / NMDAY366MASK *)
nmdaymask(year, i) ==
    IF i >= yearlenOf(year) THEN (i - yearlenOf(year)) - 31
    ELSE i - mrangeOf(year)[mmask(year, i) + 1]

(* WDAYMASK.slice(wday) *)
wdaymask(year, i) == (getWeekday(YearOrdinal(year)) + i) % 7

(* rebuildMonth of src/main.js:      the day indices marked in nwdaymask   *)
nwdayRanges(year, month, options) ==
    IF options.freq = YEARLY THEN
        IF empty(options.bymonth) THEN << <<0, yearlenOf(year)>> >>
        ELSE [j \in 1..Len(options.bymonth) |->
                 <<mrangeOf(year)[options.bymonth[j]],
                   mrangeOf(year)[options.bymonth[j] + 1]>>]
    ELSE IF options.freq = MONTHLY THEN
        << <<mrangeOf(year)[month], mrangeOf(year)[month + 1]>> >>
    ELSE <<>>

nwdayIndex(year, first, last, wday, n) ==
    IF n < 0 THEN
        LET i == last + (n + 1) * 7
        IN  i - pymod(wdaymask(year, i) - wday, 7)
    ELSE
        LET i == first + (n - 1) * 7
        IN  i + pymod(7 - wdaymask(year, i) + wday, 7)

rebuildMonth(year, month, options) ==
    LET ranges == nwdayRanges(year, month, options)
    IN  {i \in 0..(yearlenOf(year) - 1) :
            \E j \in 1..Len(ranges) : \E k \in 1..Len(options.bynweekday) :
                LET first == ranges[j][1]
                    last == ranges[j][2] - 1
                    x == nwdayIndex(year, first, last,
                                    options.bynweekday[k][1],
                                    options.bynweekday[k][2])
                IN  first <= x /\ x <= last /\ x = i}

-----------------------------------------------------------------------------
(* parseOptions of src/main.js                                             *)

RECURSIVE SelectInts(_, _)
(* the elements of l that are > 0 (pos) or < 0 (~pos), in order *)
SelectInts(l, pos) ==
    IF Len(l) = 0 THEN <<>>
    ELSE LET rest == SelectInts(Tail(l), pos)
         IN  IF (pos /\ Head(l) > 0) \/ (~pos /\ Head(l) < 0)
             THEN <<Head(l)>> \o rest ELSE rest

RECURSIVE SelectWeekdays(_, _, _)
(* byweekday.push(wday.weekday) when !wday.n || freq > MONTHLY (abs),      *)
(* bynweekday.push([wday.weekday, wday.n]) otherwise                       *)
SelectWeekdays(l, freq, abs) ==
    IF Len(l) = 0 THEN <<>>
    ELSE LET w == Head(l)
             rest == SelectWeekdays(Tail(l), freq, abs)
             isAbs == w[2] = 0 \/ freq > MONTHLY
         IN  IF abs THEN (IF isAbs THEN <<w[1]>> \o rest ELSE rest)
             ELSE (IF isAbs THEN rest ELSE <<w>> \o rest)

(* the bysetpos check of parseOptions: throws for 0 or |v| > 366           *)
validSetpos(o) ==
    ~isPresentL(o.bysetpos) \/
    \A i \in 1..Len(o.bysetpos) :
        o.bysetpos[i] # 0 /\ o.bysetpos[i] >= 0 - 366 /\ o.bysetpos[i] <= 366

parseOptions(o) ==
    LET noDayRule == ~(notEmpty(o.byyearday) \/ isPresentL(o.bymonthday)
                       \/ isPresentP(o.byweekday))
        bymonth0 == IF noDayRule /\ o.freq = YEARLY /\ ~isPresentL(o.bymonth)
                    THEN <<o.dtstart.month>> ELSE o.bymonth
        bymonthday0 == IF noDayRule /\ o.freq \in {YEARLY, MONTHLY}
                       THEN <<o.dtstart.day>> ELSE o.bymonthday
        byweekday0 == IF noDayRule /\ o.freq = WEEKLY
                      THEN << <<getWeekday(DateOf(o.dtstart).d), 0>> >>
                      ELSE o.byweekday
        wabs == IF isPresentP(byweekday0)
                THEN SelectWeekdays(byweekday0, o.freq, TRUE) ELSE <<>>
        wnth == IF isPresentP(byweekday0)
                THEN SelectWeekdays(byweekday0, o.freq, FALSE) ELSE <<>>
    IN  [freq |-> o.freq,
         dtstart |-> o.dtstart,
         interval |-> o.interval,
         wkst |-> o.wkst,
         count |-> o.count,
         until |-> o.until,
         bysetpos |-> o.bysetpos,
         bymonth |-> bymonth0,
         bymonthday |-> IF isPresentL(bymonthday0)
                        THEN SelectInts(bymonthday0, TRUE) ELSE <<>>,
         bynmonthday |-> IF isPresentL(bymonthday0)
                         THEN SelectInts(bymonthday0, FALSE) ELSE <<>>,
         byyearday |-> o.byyearday,
         byweekday |-> IF Len(wabs) > 0 THEN wabs ELSE NL,
         bynweekday |-> IF Len(wnth) > 0 THEN wnth ELSE NLP,
         byhour |-> IF ~isPresentL(o.byhour)
                    THEN (IF o.freq < HOURLY THEN <<o.dtstart.hour>> ELSE NL)
                    ELSE o.byhour,
         byminute |-> IF ~isPresentL(o.byminute)
                      THEN (IF o.freq < MINUTELY THEN <<o.dtstart.minute>> ELSE NL)
                      ELSE o.byminute,
         bysecond |-> IF ~isPresentL(o.bysecond)
                      THEN (IF o.freq < SECONDLY THEN <<o.dtstart.second>> ELSE NL)
                      ELSE o.bysecond]

freqIsDailyOrGreater(freq) == freq < HOURLY

(* buildTimeset, for freqIsDailyOrGreater(opts.freq)                       *)
buildTimeset(opts) ==
    LET nh == Len(opts.byhour)
        nm == Len(opts.byminute)
        ns == Len(opts.bysecond)
    IN  [x \in 1..(nh * nm * ns) |->
            TimeOf(opts.byhour[((x - 1) \div (nm * ns)) + 1],
                   opts.byminute[(((x - 1) \div ns) % nm) + 1],
                   opts.bysecond[((x - 1) % ns) + 1],
                   opts.dtstart.millisecond)]

-----------------------------------------------------------------------------
(* DateTime (the iterator's clock)                                         *)

fromDate(dtstart) == dtstart

RECURSIVE fixDayLoop(_)
fixDayLoop(c) ==
    IF c.day > monthRange(c.year, c.month) THEN
        LET c1 == [c EXCEPT !.day = @ - monthRange(c.year, c.month),
                            !.month = @ + 1]
        IN  IF c1.month = 13 THEN
                LET c2 == [c1 EXCEPT !.month = 1, !.year = @ + 1]
                IN  IF c2.year > MAXYEAR THEN c2 ELSE fixDayLoop(c2)
            ELSE fixDayLoop(c1)
    ELSE c

fixDay(c) == IF c.day <= 28 THEN c ELSE fixDayLoop(c)

addYears(c, years) == [c EXCEPT !.year = @ + years]

addMonths(c, months) ==
    LET m == c.month + months
    IN  IF m > 12 THEN
            IF pymod(m, 12) = 0
            THEN [c EXCEPT !.month = 12, !.year = @ + floorDiv(m, 12) - 1]
            ELSE [c EXCEPT !.month = pymod(m, 12), !.year = @ + floorDiv(m, 12)]
        ELSE [c EXCEPT !.month = m]

(* addWeekly without the step back to the first day of the week            *)
addWeeklyFromDay(c, days, wkst) == fixDay([c EXCEPT !.day = @ + days * 7])

addWeekly(c, days, wkst) ==
    LET wd == getWeekday(DateOf(c).d)
    IN  IF wkst > wd
        THEN fixDay([c EXCEPT !.day = @ - (wd + 1 + (6 - wkst)) + days * 7])
        ELSE fixDay([c EXCEPT !.day = @ - (wd - wkst) + days * 7])

addDaily(c, days) == fixDay([c EXCEPT !.day = @ + days])

hourOk(c, o) == empty(o.byhour) \/ includes(o.byhour, c.hour)
minuteOk(c, o) == hourOk(c, o) /\ (empty(o.byminute) \/ includes(o.byminute, c.minute))
secondOk(c, o) == minuteOk(c, o) /\ (empty(o.bysecond) \/ includes(o.bysecond, c.second))

(* the jump "to one iteration before next day" of addHours, addMinutes and *)
(* addSeconds, taken when the day just visited was filtered out            *)
addJump(c, freq, n, filtered) ==
    IF ~filtered THEN c
    ELSE IF freq = HOURLY THEN
        [c EXCEPT !.hour = @ + floorDiv(23 - c.hour, n) * n]
    ELSE IF freq = MINUTELY THEN
        [c EXCEPT !.minute = @ + floorDiv(1439 - (c.hour * 60 + c.minute), n) * n]
    ELSE
        [c EXCEPT !.second =
            @ + floorDiv(86399 - (c.hour * 3600 + c.minute * 60 + c.second), n) * n]

Frame(fn, n) == [fn |-> fn, n |-> n, phase |-> "top"]

Pop(stack) == SubSeq(stack, 1, Len(stack) - 1)

(* One pass of the while (true) loop of the innermost running addHours /   *)
(* addMinutes / addSeconds call; stack holds the running calls.            *)
addLoopStep(c, stack, o) ==
    LET f == stack[Len(stack)]
        below == Pop(stack)
    IN  IF f.fn = "h" THEN
            LET h == c.hour + f.n
                c1 == IF floorDiv(h, 24) # 0
                      THEN addDaily([c EXCEPT !.hour = pymod(h, 24)], floorDiv(h, 24))
                      ELSE [c EXCEPT !.hour = h]
            IN  [c |-> c1, stack |-> IF hourOk(c1, o) THEN below ELSE stack]
        ELSE IF f.fn = "m" THEN
            IF f.phase = "top" THEN
                LET m == c.minute + f.n
                IN  IF floorDiv(m, 60) # 0 THEN
                        [c |-> [c EXCEPT !.minute = pymod(m, 60)],
                         stack |-> below \o <<[f EXCEPT !.phase = "check"],
                                              Frame("h", floorDiv(m, 60))>>]
                    ELSE
                        LET c1 == [c EXCEPT !.minute = m]
                        IN  [c |-> c1,
                             stack |-> IF minuteOk(c1, o) THEN below ELSE stack]
            ELSE
                [c |-> c,
                 stack |-> IF minuteOk(c, o) THEN below
                           ELSE below \o <<[f EXCEPT !.phase = "top"]>>]
        ELSE
            IF f.phase = "top" THEN
                LET sec == c.second + f.n
                IN  IF floorDiv(sec, 60) # 0 THEN
                        [c |-> [c EXCEPT !.second = pymod(sec, 60)],
                         stack |-> below \o <<[f EXCEPT !.phase = "check"],
                                              Frame("m", floorDiv(sec, 60))>>]
                    ELSE
                        LET c1 == [c EXCEPT !.second = sec]
                        IN  [c |-> c1,
                             stack |-> IF secondOk(c1, o) THEN below ELSE stack]
            ELSE
                [c |-> c,
                 stack |-> IF secondOk(c, o) THEN below
                           ELSE below \o <<[f EXCEPT !.phase = "top"]>>]

(* DateTime.prototype.add for YEARLY .. DAILY (no loop)                    *)
addCoarse(c, o) ==
    IF o.freq = YEARLY THEN addYears(c, o.interval)
    ELSE IF o.freq = MONTHLY THEN addMonths(c, o.interval)
    ELSE IF o.freq = WEEKLY THEN addWeekly(c, o.interval, o.wkst)
    ELSE addDaily(c, o.interval)

(* DateTime.prototype.add for HOURLY .. SECONDLY: the call that is opened  *)
addFine(c, o, filtered) ==
    [c |-> addJump(c, o.freq, o.interval, filtered),
     stack |-> <<Frame(IF o.freq = HOURLY THEN "h"
                       ELSE IF o.freq = MINUTELY THEN "m" ELSE "s",
                       o.interval)>>]

-----------------------------------------------------------------------------
(* IterResult / CallbackIterResult.  args is [dt, after, before, inc], the *)
(* unused ones NullDate; cb is the n of the callback (_, len) => len < n   *)
(* of RepeatAdapter.next, or NULL without callback.  wrap, hash and exr    *)
(* hold the accept wrapper that iterSet installs.  offered and cbCalls     *)
(* record the dates passed to accept and the calls of the callback.        *)

NoArgs == [dt |-> NullDate, after |-> NullDate, before |-> NullDate, inc |-> FALSE]

IterResult(method, args, cb) ==
    [method |-> method,
     args |-> args,
     cb |-> cb,
     minDate |-> IF method = "between"
                 THEN (IF args.inc THEN args.after ELSE DatePlus(args.after, 1))
                 ELSE IF method = "after"
                 THEN (IF args.inc THEN args.dt ELSE DatePlus(args.dt, 1))
                 ELSE NullDate,
     maxDate |-> IF method = "between"
                 THEN (IF args.inc THEN args.before ELSE DatePlus(args.before, 0 - 1))
                 ELSE IF method = "before"
                 THEN (IF args.inc THEN args.dt ELSE DatePlus(args.dt, 0 - 1))
                 ELSE NullDate,
     result |-> <<>>,
     total |-> 0,
     wrap |-> "none",
     hash |-> {},
     exr |-> <<>>,
     offered |-> <<>>,
     cbCalls |-> <<>>]

(* add that keeps the date the callback refuses                            *)
IRaddKeepsRefused(r, date) ==
    IF r.cb = NULL THEN
        [r |-> [r EXCEPT !.result = Append(@, date)], cont |-> TRUE]
    ELSE
        [r |-> [r EXCEPT !.result = Append(@, date),
                         !.cbCalls = Append(@, <<date, Len(r.result)>>)],
         cont |-> Len(r.result) < r.cb]

(* IterResult.prototype.add, CallbackIterResult.prototype.add              *)
IRadd(r, date) ==
    IF r.cb = NULL THEN
        [r |-> [r EXCEPT !.result = Append(@, date)], cont |-> TRUE]
    ELSE IF Len(r.result) < r.cb THEN
        [r |-> [r EXCEPT !.result = Append(@, date),
                         !.cbCalls = Append(@, <<date, Len(r.result)>>)],
         cont |-> TRUE]
    ELSE
        [r |-> [r EXCEPT !.cbCalls = Append(@, <<date, Len(r.result)>>)],
         cont |-> FALSE]

(* IterResult.prototype.accept                                             *)
IRaccept(r, date) ==
    LET r1 == [r EXCEPT !.total = @ + 1]
        tooEarly == r.minDate # NullDate /\ DateLt(date, r.minDate)
        tooLate == r.maxDate # NullDate /\ DateLt(r.maxDate, date)
    IN  IF r.method = "between" THEN
            IF tooEarly THEN [r |-> r1, cont |-> TRUE]
            ELSE IF tooLate THEN [r |-> r1, cont |-> FALSE]
            ELSE IRadd(r1, date)
        ELSE IF r.method = "before" THEN
            IF tooLate THEN [r |-> r1, cont |-> FALSE] ELSE IRadd(r1, date)
        ELSE IF r.method = "after" THEN
            IF tooEarly THEN [r |-> r1, cont |-> TRUE]
            ELSE [r |-> IRadd(r1, date).r, cont |-> FALSE]
        ELSE IRadd(r1, date)

(* IterResult.prototype.getValue; null of before/after is <<>>, a date d   *)
(* is <<d>>                                                                *)
getValue(r) ==
    IF r.method \in {"all", "between"} THEN r.result
    ELSE IF Len(r.result) > 0 THEN <<r.result[Len(r.result)]>> ELSE <<>>

-----------------------------------------------------------------------------
(* Cache                                                                   *)

NewCache == [allSet |-> FALSE, all |-> <<>>,
             before |-> <<>>, after |-> <<>>, between |-> <<>>]

cacheAdd(cache, what, value, args) ==
    IF what = "all" THEN [cache EXCEPT !.allSet = TRUE, !.all = value]
    ELSE [cache EXCEPT ![what] = Append(@, [args |-> args, value |-> value])]

(* findCacheDiff: the keys of args are compared as strings                 *)
findCacheDiff(what, args, item) ==
    IF what = "between" THEN
        \/ DateString(args.before) # DateString(item.before)
        \/ DateString(args.after) # DateString(item.after)
        \/ args.inc # item.inc
    ELSE
        \/ DateString(args.dt) # DateString(item.dt)
        \/ args.inc # item.inc

RECURSIVE acceptAll(_, _, _)
(* the loop of _cacheGet over this.all                                     *)
acceptAll(r, all, i) ==
    IF i > Len(all) THEN r
    ELSE LET a == IRaccept(r, all[i])
         IN  IF a.cont THEN acceptAll(a.r, all, i + 1) ELSE a.r

(* _cacheGet, "if (!cached && this.all)": the answer is made from the      *)
(* cached list of all() and stored                                         *)
cacheFilter(cache, what, args, v) ==
    [hit |-> TRUE, value |-> v, cache |-> cacheAdd(cache, what, v, args), item |-> <<>>]

(* _cacheGet after its loop over the entries: found holds the indices of   *)
(* the entries that findCacheDiff does not tell from args                  *)
cacheFound(cache, what, args, found) ==
    IF /\ cache.allSet
       /\ \/ found = {}
          \/ (what \in {"before", "after"}
              /\ \E i \in found : (\A j \in found : i <= j) /\ cache[what][i].value = <<>>)
    THEN cacheFilter(cache, what, args,
                     getValue(acceptAll(IterResult(what, args, NULL), cache.all, 1)))
    ELSE IF found = {}
    THEN [hit |-> FALSE, value |-> <<>>, cache |-> cache, item |-> <<>>]
    ELSE [hit |-> TRUE,
          value |-> cache[what][CHOOSE i \in found : \A j \in found : i <= j].value,
          cache |-> cache,
          item |-> <<cache[what][CHOOSE i \in found : \A j \in found : i <= j].args>>]

(* _cacheGet: hit = FALSE is the return value false; item holds the args   *)
(* of the cache entry whose value is returned, if it is one                *)
cacheGet(cache, what, args) ==
    IF what = "all" THEN
        [hit |-> cache.allSet, value |-> cache.all, cache |-> cache, item |-> <<>>]
    ELSE
        cacheFound(cache, what, args,
                   {i \in 1..Len(cache[what]) :
                       ~findCacheDiff(what, args, cache[what][i].args)})

-----------------------------------------------------------------------------
(* Iterinfo: day sets and time sets                                        *)

(* ydayset / mdayset / wdayset / ddayset: [start, end) as day indices      *)
getdayset(c, o) ==
    LET i0 == toOrdinal(c.year, c.month, c.day) - YearOrdinal(c.year)
    IN  IF o.freq = YEARLY THEN [start |-> 0, end |-> yearlenOf(c.year)]
        ELSE IF o.freq = MONTHLY THEN
            [start |-> mrangeOf(c.year)[c.month], end |-> mrangeOf(c.year)[c.month + 1]]
        ELSE IF o.freq = WEEKLY THEN
            [start |-> i0,
             end |-> CHOOSE e \in (i0 + 1)..(i0 + 7) :
                        /\ (e = i0 + 7 \/ wdaymask(c.year, e) = o.wkst)
                        /\ \A x \in (i0 + 1)..(e - 1) : wdaymask(c.year, x) # o.wkst]
        ELSE [start |-> i0, end |-> i0 + 1]

(* mtimeset *)
mtimeset(o, hour, minute, millisecond) ==
    sortTimes([k \in 1..Len(o.bysecond) |->
                  TimeOf(hour, minute, o.bysecond[k], millisecond)])

RECURSIVE concatMtimesets(_, _, _, _)
concatMtimesets(o, hour, millisecond, k) ==
    IF k > Len(o.byminute) THEN <<>>
    ELSE mtimeset(o, hour, o.byminute[k], millisecond)
         \o concatMtimesets(o, hour, millisecond, k + 1)

(* htimeset *)
htimeset(o, hour, millisecond) == sortTimes(concatMtimesets(o, hour, millisecond, 1))

(* gettimeset(freq)(hour, minute, second, millisecond), freq >= HOURLY     *)
gettimeset(o, hour, minute, second, millisecond) ==
    IF o.freq = HOURLY THEN htimeset(o, hour, millisecond)
    ELSE IF o.freq = MINUTELY THEN mtimeset(o, hour, minute, millisecond)
    ELSE <<TimeOf(hour, minute, second, millisecond)>>

(* forEach / map on a null list raises a TypeError                         *)
timesetThrows(o) ==
    IF freqIsDailyOrGreater(o.freq)
    THEN \/ ~isPresentL(o.byhour)
         \/ (Len(o.byhour) > 0 /\ ~isPresentL(o.byminute))
         \/ (Len(o.byhour) > 0 /\ Len(o.byminute) > 0 /\ ~isPresentL(o.bysecond))
    ELSE IF o.freq = HOURLY
    THEN ~isPresentL(o.byminute) \/ (Len(o.byminute) > 0 /\ ~isPresentL(o.bysecond))
    ELSE IF o.freq = MINUTELY THEN ~isPresentL(o.bysecond)
    ELSE FALSE

makeTimeset(c, o) ==
    IF freqIsDailyOrGreater(o.freq) THEN buildTimeset(o)
    ELSE IF \/ (o.freq >= HOURLY /\ notEmpty(o.byhour) /\ ~includes(o.byhour, c.hour))
            \/ (o.freq >= MINUTELY /\ notEmpty(o.byminute)
                /\ ~includes(o.byminute, c.minute))
            \/ (o.freq >= SECONDLY /\ notEmpty(o.bysecond)
                /\ ~includes(o.bysecond, c.second))
    THEN <<>>
    ELSE gettimeset(o, c.hour, c.minute, c.second, c.millisecond)

-----------------------------------------------------------------------------
(* iter: filtering                                                         *)

nwdayActive(year, month, o) ==
    notEmptyP(o.bynweekday) /\ Len(nwdayRanges(year, month, o)) > 0

(* isFiltered without the test of the day of the month                     *)
isFilteredAnyMonthDay(year, month, i, o) ==
    \/ (notEmpty(o.bymonth) /\ ~includes(o.bymonth, mmask(year, i)))
    \/ (notEmpty(o.byweekday) /\ ~includes(o.byweekday, wdaymask(year, i)))
    \/ (nwdayActive(year, month, o) /\ i \notin rebuildMonth(year, month, o))

isFiltered(year, month, i, o) ==
    \/ (notEmpty(o.bymonth) /\ ~includes(o.bymonth, mmask(year, i)))
    \/ (notEmpty(o.byweekday) /\ ~includes(o.byweekday, wdaymask(year, i)))
    \/ (nwdayActive(year, month, o) /\ i \notin rebuildMonth(year, month, o))
    \/ ((notEmpty(o.bymonthday) \/ notEmpty(o.bynmonthday))
        /\ ~includes(o.bymonthday, mdaymask(year, i))
        /\ ~includes(o.bynmonthday, nmdaymask(year, i)))
    \/ (notEmpty(o.byyearday)
        /\ \/ (i < yearlenOf(year)
               /\ ~includes(o.byyearday, i + 1)
               /\ ~includes(o.byyearday, i - yearlenOf(year)))
           \/ (i >= yearlenOf(year)
               /\ ~includes(o.byyearday, i + 1 - yearlenOf(year))
               /\ ~includes(o.byyearday, i - yearlenOf(year + 1) - yearlenOf(year))))

(* the entries of dayset[start..end) that removeFilteredDays leaves        *)
keptDays(c, o, start, end) ==
    SelectSeq([k \in 1..(end - start) |-> start + k - 1],
              LAMBDA i : ~isFiltered(c.year, c.month, i, o))

(* the value removeFilteredDays returns: whether the last day was filtered *)
removeFilteredDays(c, o) ==
    isFiltered(c.year, c.month, getdayset(c, o).end - 1, o)

(* the candidates of the nested loops over dayset and timeset              *)
dayTimes(days, timeset, yearordinal) ==
    [x \in 1..(Len(days) * Len(timeset)) |->
        combine(yearordinal + days[((x - 1) \div Len(timeset)) + 1],
                timeset[((x - 1) % Len(timeset)) + 1])]

(* one entry of buildPoslist; NullDate is the Invalid Date                 *)
posDate(pos, timeset, tmp, yearordinal) ==
    IF Len(timeset) = 0 THEN NullDate
    ELSE
        LET daypos == IF pos < 0 THEN floorDiv(pos, Len(timeset))
                      ELSE floorDiv(pos - 1, Len(timeset))
            timepos == IF pos < 0 THEN pymod(pos, Len(timeset))
                       ELSE pymod(pos - 1, Len(timeset))
            idx == IF daypos < 0
                   THEN (IF Len(tmp) + daypos < 0 THEN 0 ELSE Len(tmp) + daypos)
                   ELSE daypos
        IN  IF idx >= Len(tmp) THEN NullDate
            ELSE combine(yearordinal + tmp[idx + 1], timeset[timepos + 1])

(* a.getTime() - b.getTime() < 0; NaN for an Invalid Date                  *)
posLt(a, b) == a # NullDate /\ b # NullDate /\ DateLt(a, b)

RECURSIVE insertPos(_, _)
insertPos(s, x) ==
    IF Len(s) = 0 THEN <<x>>
    ELSE IF posLt(x, s[Len(s)]) THEN
             Append(insertPos(SubSeq(s, 1, Len(s) - 1), x), s[Len(s)])
         ELSE Append(s, x)

RECURSIVE sortPos(_)
sortPos(s) ==
    IF Len(s) = 0 THEN <<>>
    ELSE insertPos(sortPos(SubSeq(s, 1, Len(s) - 1)), s[Len(s)])

buildPoslist(bysetpos, timeset, tmp, yearordinal) ==
    sortPos([j \in 1..Len(bysetpos) |->
                posDate(bysetpos[j], timeset, tmp, yearordinal)])

(* the dates one pass of the while (true) loop of iter generates, in order *)
candidates(c, timeset, o) ==
    LET ds == getdayset(c, o)
        days == keptDays(c, o, ds.start, ds.end)
    IN  IF notEmpty(o.bysetpos)
        THEN buildPoslist(o.bysetpos, timeset, days, YearOrdinal(c.year))
        ELSE dayTimes(days, timeset, YearOrdinal(c.year))

-----------------------------------------------------------------------------
(* iter, one pass of its loop at a time.  An iteration is the record       *)
(*   pc        "period": at the top of the while (true) loop,              *)
(*             "add": inside counterDate.add of a frequency below DAILY,   *)
(*             "done": returned, "throw": raised, "idle": no call running  *)
(*   c         counterDate         timeset, count   the locals of iter     *)
(*   stack     the running addHours / addMinutes / addSeconds calls        *)
(*   r         the IterResult                                              *)
(*   skipped   number of candidates below dtstart; adds: number of         *)
(*             completed counterDate.add calls                             *)

RECURSIVE iterRun(_, _)
RECURSIVE accept(_, _)

IdleIt ==
    [pc |-> "idle",
     c |-> [year |-> 0, month |-> 0, day |-> 0, hour |-> 0, minute |-> 0,
            second |-> 0, millisecond |-> 0],
     timeset |-> <<>>, count |-> NULL, stack |-> <<>>,
     r |-> IterResult("all", NoArgs, NULL), skipped |-> 0, adds |-> 0]

(* iter up to its loop                                                     *)
iterStart(r, o) ==
    IF o.count = 0 \/ o.interval = 0 THEN
        [IdleIt EXCEPT !.pc = "done", !.r = r, !.count = o.count]
    ELSE IF timesetThrows(o) THEN
        [IdleIt EXCEPT !.pc = "throw", !.r = r, !.c = fromDate(o.dtstart),
                       !.count = o.count]
    ELSE
        [IdleIt EXCEPT !.pc = "period", !.r = r, !.c = fromDate(o.dtstart),
                       !.count = o.count,
                       !.timeset = makeTimeset(fromDate(o.dtstart), o)]

(* what a rule object [orig, options, cache] answers, and the object then  *)
ruleAnswer(ruleObj, value, cache) ==
    [value |-> value, rule |-> [ruleObj EXCEPT !.cache = cache]]

(* _iter gave v: _cacheAdd                                                 *)
ruleIterated(ruleObj, method, args, v) ==
    ruleAnswer(ruleObj, v, cacheAdd(ruleObj.cache, method, v, args))

(* rule.between / before / after without callback, after _cacheGet gave g  *)
ruleQueryFrom(ruleObj, method, args, g) ==
    IF g.hit THEN ruleAnswer(ruleObj, g.value, g.cache)
    ELSE ruleIterated(ruleObj, method, args,
                      getValue(iterRun(iterStart(IterResult(method, args, NULL),
                                                 ruleObj.options),
                                       ruleObj.options).r))

(* rule.between / before / after without callback on a rule object         *)
ruleQuery(ruleObj, method, args) ==
    ruleQueryFrom(ruleObj, method, args, cacheGet(ruleObj.cache, method, args))

(* the dates an exrule gave go into _exdateHash                            *)
addExcluded(r, k, q) ==
    [r EXCEPT !.exr[k] = q.rule, !.hash = @ \cup Range(q.value)]

RECURSIVE evalExdate(_, _, _, _)
(* evalExdate of iterSet: every exrule's between(after, before, true)      *)
evalExdate(r, after, before, k) ==
    IF k > Len(r.exr) THEN r
    ELSE evalExdate(addExcluded(r, k,
                                ruleQuery(r.exr[k], "between",
                                          [dt |-> NullDate, after |-> after,
                                           before |-> before, inc |-> TRUE])),
                    after, before, k + 1)

(* the functions iterSet puts in place of accept, from the test            *)
(* "if (!_exdateHash[dt])" on                                              *)
acceptNew(r, date) ==
    IF date \notin r.hash
    THEN IRaccept([r EXCEPT !.hash = @ \cup {date}], date)
    ELSE [r |-> r, cont |-> TRUE]

(* iterResult.accept as iter calls it: the method of IterResult, or the    *)
(* function iterSet put in its place                                       *)
acceptOffered(r, date) ==
    IF r.wrap = "none" THEN IRaccept(r, date)
    ELSE IF r.wrap = "set" /\ date \notin r.hash
    THEN acceptNew(evalExdate(r, DatePlus(date, 0 - 1), DatePlus(date, 1), 1), date)
    ELSE acceptNew(r, date)

accept(r, date) == acceptOffered([r EXCEPT !.offered = Append(@, date)], date)

RECURSIVE emit(_, _, _, _)
(* the body of the loops over the candidates once accept returned a        *)
emitAccepted(cands, k, e, o, a) ==
    IF ~a.cont THEN [e EXCEPT !.r = a.r, !.stop = TRUE]
    ELSE IF e.count # NULL /\ e.count # 0 THEN
        IF e.count - 1 = 0
        THEN [e EXCEPT !.r = a.r, !.count = 0, !.stop = TRUE]
        ELSE emit(cands, k + 1, [e EXCEPT !.r = a.r, !.count = @ - 1], o)
    ELSE emit(cands, k + 1, [e EXCEPT !.r = a.r], o)

(* the loops over the candidates with a count that also drops for the      *)
(* candidates below dtstart                                                *)
emitCountsSkipped(cands, k, e, o) ==
    IF k > Len(cands) THEN e
    ELSE IF cands[k] = NullDate THEN emit(cands, k + 1, e, o)
    ELSE IF o.until # NullDate /\ DateLt(o.until, cands[k])
    THEN [e EXCEPT !.stop = TRUE]
    ELSE IF DateLe(DateOf(o.dtstart), cands[k])
    THEN emitAccepted(cands, k, e, o, accept(e.r, cands[k]))
    ELSE emitAccepted(cands, k, [e EXCEPT !.skipped = @ + 1], o,
                      [r |-> e.r, cont |-> TRUE])

(* the body of the loops over the candidates; e.stop: iter returns         *)
emit(cands, k, e, o) ==
    IF k > Len(cands) THEN e
    ELSE IF cands[k] = NullDate THEN emit(cands, k + 1, e, o)
    ELSE IF o.until # NullDate /\ DateLt(o.until, cands[k])
    THEN [e EXCEPT !.stop = TRUE]
    ELSE IF DateLe(DateOf(o.dtstart), cands[k])
    THEN emitAccepted(cands, k, e, o, accept(e.r, cands[k]))
    ELSE emit(cands, k + 1, [e EXCEPT !.skipped = @ + 1], o)

(* after counterDate.add: the year check, the new timeset, ii.rebuild      *)
afterAdd(x, c1, o) ==
    IF c1.year > MAXYEAR THEN [x EXCEPT !.pc = "done", !.c = c1, !.adds = @ + 1,
                                        !.stack = <<>>]
    ELSE [x EXCEPT !.pc = "period", !.c = c1, !.adds = @ + 1, !.stack = <<>>,
                   !.timeset = IF freqIsDailyOrGreater(o.freq) THEN @
                               ELSE gettimeset(o, c1.hour, c1.minute, c1.second, 0)]

(* the locals of iter after the loops over the candidates                  *)
emitted(x, e) == [x EXCEPT !.r = e.r, !.count = e.count, !.skipped = e.skipped]

(* counterDate.add of a frequency below DAILY has begun                    *)
startAdd(x, a) == [x EXCEPT !.pc = "add", !.c = a.c, !.stack = a.stack]

(* one pass of the while (true) loop of iter after its candidates          *)
periodEnd(x, e, o) ==
    IF e.stop THEN [x EXCEPT !.pc = "done"]
    ELSE IF freqIsDailyOrGreater(o.freq) THEN afterAdd(x, addCoarse(x.c, o), o)
    ELSE startAdd(x, addFine(x.c, o, removeFilteredDays(x.c, o)))

periodEmitted(x, e, o) == periodEnd(emitted(x, e), e, o)

(* one pass of the while (true) loop of iter, up to counterDate.add        *)
periodStep(x, o) ==
    periodEmitted(x, emit(candidates(x.c, x.timeset, o), 1,
                          [r |-> x.r, count |-> x.count, stop |-> FALSE,
                           skipped |-> x.skipped], o), o)

addLooped(x, a, o) ==
    IF Len(a.stack) = 0 THEN afterAdd(x, a.c, o)
    ELSE [x EXCEPT !.c = a.c, !.stack = a.stack]

(* one pass of the loop of the innermost addHours/addMinutes/addSeconds    *)
addStep(x, o) == addLooped(x, addLoopStep(x.c, x.stack, o), o)

(* the clock left the supported years inside an add loop that goes on      *)
hangs(x) == x.pc = "add" /\ x.c.year > MAXYEAR + 1

iterStep(x, o) == IF x.pc = "period" THEN periodStep(x, o) ELSE addStep(x, o)

(* iter run to its return                                                  *)
iterRun(x, o) ==
    IF x.pc \in {"done", "throw"} \/ hangs(x) THEN x
    ELSE iterRun(iterStep(x, o), o)

-----------------------------------------------------------------------------
(* The rules and query arguments of the model                              *)

Civil(year, month, day, hour, minute, second, millisecond) ==
    [year |-> year, month |-> month, day |-> day, hour |-> hour,
     minute |-> minute, second |-> second, millisecond |-> millisecond]

(* the options object given to new RRule(options): keys left out are null  *)
Opt(freq, dtstart) ==
    [freq |-> freq, dtstart |-> dtstart, interval |-> 1, wkst |-> 0,
     count |-> NULL, until |-> NullDate, bysetpos |-> NL, bymonth |-> NL,
     bymonthday |-> NL, byyearday |-> NL, byweekday |-> NLP, byhour |-> NL,
     byminute |-> NL, bysecond |-> NL]

(* start moments shortly before the end of year MAXYEAR, where a rule      *)
(* without count and until still ends after a few periods                  *)
LateStarts(freq) ==
    IF freq = YEARLY THEN {Civil(9996, 2, 29, 19, 56, 56, 0)}
    ELSE IF freq = MONTHLY THEN {Civil(9999, 8, 30, 19, 56, 56, 0)}
    ELSE IF freq = WEEKLY THEN {Civil(9999, 12, 10, 19, 56, 56, 0)}
    ELSE IF freq = DAILY THEN {Civil(9999, 12, 29, 19, 56, 56, 0)}
    ELSE IF freq = HOURLY THEN {Civil(9999, 12, 31, 19, 56, 56, 0)}
    ELSE IF freq = MINUTELY THEN {Civil(9999, 12, 31, 23, 56, 56, 0)}
    ELSE {Civil(9999, 12, 31, 23, 59, 56, 0)}

(* start moments in 2024, for rules that end by count or until             *)
EarlyStarts(freq) ==
    IF freq <= MONTHLY THEN {Civil(2024, 3, 30, 19, 56, 56, 0)}
    ELSE {Civil(2024, 1, 3, 19, 56, 56, 0)}

Millis == {0, 250}
Intervals == {1, 2}
MaxCount == 2

(* the step between the bound dates of the queries, as [d, t]              *)
Unit(freq) ==
    IF freq = YEARLY THEN [d |-> 365, t |-> 0]
    ELSE IF freq = MONTHLY THEN [d |-> 31, t |-> 0]
    ELSE IF freq = WEEKLY THEN [d |-> 7, t |-> 0]
    ELSE IF freq = DAILY THEN [d |-> 1, t |-> 0]
    ELSE IF freq = HOURLY THEN [d |-> 0, t |-> 3600000]
    ELSE IF freq = MINUTELY THEN [d |-> 0, t |-> 60000]
    ELSE [d |-> 0, t |-> 1000]

(* x + k * Unit(freq) + ms *)
Shift(x, freq, k, ms) ==
    DatePlus([d |-> x.d + k * Unit(freq).d, t |-> x.t], k * Unit(freq).t + ms)

NoBy == [md |-> NL, wd |-> NLP, h |-> NL, m |-> NL, sec |-> NL]

(* BY-rule choices: bymonthday, byweekday, byhour, byminute, bysecond      *)
ByChoices ==
    {NoBy,
     [md |-> <<1, 15>>, wd |-> NLP, h |-> NL, m |-> NL, sec |-> NL],
     [md |-> NL, wd |-> << <<0, 0>>, <<2, 0>> >>, h |-> NL, m |-> NL, sec |-> NL],
     [md |-> NL, wd |-> NLP, h |-> <<19, 5>>, m |-> NL, sec |-> NL],
     [md |-> NL, wd |-> NLP, h |-> NL, m |-> <<57, 30>>, sec |-> NL],
     [md |-> NL, wd |-> NLP, h |-> NL, m |-> NL, sec |-> <<58, 15>>]}

(* count and until: neither, count, until                                  *)
EndChoices(st, freq) ==
    {[count |-> NULL, until |-> NullDate]}
    \cup {[count |-> n, until |-> NullDate] : n \in {0, MaxCount}}
    \cup {[count |-> NULL, until |-> Shift(DateOf(st), freq, 2, 0)]}

MkRule(freq, st, ms, iv, end, by) ==
    [Opt(freq, [st EXCEPT !.millisecond = ms])
        EXCEPT !.interval = iv, !.count = end.count, !.until = end.until,
               !.bymonthday = by.md, !.byweekday = by.wd,
               !.byhour = by.h, !.byminute = by.m, !.bysecond = by.sec]

(* a start with milliseconds goes with no BY-rule, a yearly rule with no   *)
(* weekday list                                                            *)
RuleInputsOf(freq) ==
    UNION {{MkRule(freq, st, x[1], x[2], x[3], x[4]) :
               x \in {y \in Millis \X Intervals \X EndChoices(st, freq) \X ByChoices :
                        /\ (y[1] = 0 \/ y[4] = NoBy)
                        /\ (freq # YEARLY \/ y[4].wd = NLP)
                        /\ (st \in LateStarts(freq) \/ y[3].count # NULL
                            \/ y[3].until # NullDate)}} :
           st \in LateStarts(freq) \cup EarlyStarts(freq)}

(* "every 24 hours" from 15:56:56 with byhour = [5]: no hour the clock     *)
(* visits is in byhour                                                     *)
NoSlotInputs ==
    {[Opt(HOURLY, Civil(9999, 12, 31, 15, 56, 56, 0))
        EXCEPT !.interval = 24, !.byhour = <<5>>]}

(* the second Tuesday, by month and by week                                *)
OrdinalInputs ==
    UNION {{MkRule(freq, st, 0, 1, [count |-> MaxCount, until |-> NullDate],
                   [NoBy EXCEPT !.wd = << <<1, 2>> >>]) : st \in EarlyStarts(freq)} :
           freq \in {MONTHLY, WEEKLY}}

(* daily rules given both a count and an until: the until comes first in   *)
(* one and the count in the other                                          *)
BothEndInputs ==
    UNION {{MkRule(DAILY, st, 0, 1,
                   [count |-> MaxCount + 1, until |-> Shift(DateOf(st), DAILY, 1, 0)], NoBy),
            MkRule(DAILY, st, 0, 1,
                   [count |-> MaxCount, until |-> Shift(DateOf(st), DAILY, MaxCount + 1, 0)],
                   NoBy)} : st \in EarlyStarts(DAILY)}

RuleInputs ==
    UNION {RuleInputsOf(freq) : freq \in YEARLY..SECONDLY} \cup NoSlotInputs
        \cup OrdinalInputs \cup BothEndInputs

(* the rules of the cache specification, from 2024-01-03 19:56:56.250 and  *)
(* with MaxCount + 1 occurrences: daily at the hours 19 and 5, and hourly  *)
CacheRuleInputs ==
    {MkRule(DAILY, st, 250, 1, [count |-> MaxCount + 1, until |-> NullDate],
            [NoBy EXCEPT !.h = <<19, 5>>]) : st \in EarlyStarts(DAILY)}
    \cup {MkRule(HOURLY, st, 250, 1, [count |-> MaxCount + 1, until |-> NullDate], NoBy) :
             st \in EarlyStarts(HOURLY)}

(* bound dates of before / after / between: around the start and the       *)
(* moments up to MaxK units later, on and a quarter second before them     *)
MaxK == 1
QDates(o) == {Shift(DateOf(o.dtstart), o.freq, k, ms) : k \in 0..MaxK, ms \in {0 - 250, 0}}

(* the bound dates of the cache specification: one period after the       *)
(* start, and a millisecond before that                                    *)
CacheQDates(o) ==
    {Shift(DateOf(o.dtstart), o.freq, 1, 0 - 1), Shift(DateOf(o.dtstart), o.freq, 1, 0)}

NewRule(orig) == [orig |-> orig, options |-> parseOptions(orig), cache |-> NewCache]

-----------------------------------------------------------------------------
(* State: rule is the RRule object, it the running iteration, log the      *)
(* calls that returned, budget the calls still to be made.                 *)

(* new RepeatAdapter(rrule): no subscriptions.  made keeps the rule object *)
(* as it was given to the constructor, issued the unsubscribe functions    *)
(* subscribe returned, ops the operations made on the adapter, budget the  *)
(* operations still to be made                                             *)
NewAdapter(rrule, n) ==
    [subs |-> <<>>, issued |-> <<>>, ops |-> <<>>,
     made |-> [orig |-> rrule.orig, options |-> rrule.options], budget |-> n]

RSetNone == [rrule |-> <<>>, exrule |-> <<>>, rdate |-> <<>>, exdate |-> <<>>,
             cache |-> NewCache]

-----------------------------------------------------------------------------
(* The task list of src/src/state.ts.  A config line is held as the parts  *)
(* line.split(':') gives once trimmed; a day is its day number in January  *)
(* 2024 and no value (undefined) is NULL; the tags of a note are a         *)
(* sequence, empty when the front matter holds none.                       *)

(* TaskListConfigDefaults *)
TaskListConfigDefaults ==
    [overdue |-> FALSE, due |-> TRUE, noDue |-> TRUE, completed |-> "undefined",
     sort |-> "score", group |-> "undefined", selectTags |-> <<>>,
     omitTags |-> <<>>, selectDay |-> "undefined", selectWeek |-> "undefined"]

(* parts[1].match(/^\[.*\]$/) ? the list between the brackets, split on    *)
(* ',' and trimmed : [parts[1]], for the values the config lines hold      *)
tagList(text) ==
    CASE text = "[work, home]" -> <<"work", "home">>
      [] text = "[]" -> <<"">>
      [] OTHER -> <<text>>

(* one turn of the forEach of parseTaskListConfig *)
parseLine(state, parts) ==
    IF parts = <<"">> THEN state
    ELSE IF Len(parts) # 2 THEN state
    ELSE CASE parts[1] = "overdue" -> [state EXCEPT !.overdue = (parts[2] = "true")]
           [] parts[1] = "due" -> [state EXCEPT !.due = (parts[2] = "true")]
           [] parts[1] = "no-due" -> [state EXCEPT !.noDue = (parts[2] = "true")]
           [] parts[1] = "completed" ->
                [state EXCEPT !.completed = IF parts[2] = "true" THEN "true" ELSE "false"]
           [] parts[1] = "sort" ->
                [state EXCEPT !.sort = IF parts[2] \in {"due", "score"}
                                       THEN parts[2] ELSE "undefined"]
           [] parts[1] = "group" ->
                [state EXCEPT !.group = IF parts[2] \in {"due", "completed"}
                                        THEN parts[2] ELSE "undefined"]
           [] parts[1] = "select-tags" -> [state EXCEPT !.selectTags = tagList(parts[2])]
           [] parts[1] = "omit-tags" -> [state EXCEPT !.omitTags = tagList(parts[2])]
           [] parts[1] = "select-day" ->
                [state EXCEPT !.selectDay = parts[2], !.due = TRUE]
           [] parts[1] = "select-week" ->
                [state EXCEPT !.selectWeek = parts[2], !.due = TRUE]
           [] OTHER -> state

RECURSIVE parseLines(_, _)
parseLines(state, lines) ==
    IF Len(lines) = 0 THEN state
    ELSE parseLines(parseLine(state, Head(lines)), Tail(lines))

parseTaskListConfig(lines) == parseLines(TaskListConfigDefaults, lines)

(* window.moment(text), as the day number of the dates the lines hold *)
momentOf(text) ==
    CASE text = "2024-01-03" -> 3
      [] text = "2024-01-10" -> 10

(* moment.startOf('week'): the Sunday on or before the day (7 January 2024 *)
(* is a Sunday)                                                            *)
startOfWeek(d) == d - (d % 7)

(* a filter of the list: kind names the closure, the other fields are the  *)
(* values it closed over                                                   *)
TaskFilter(kind, day, tags, from, to) ==
    [kind |-> kind, day |-> day, tags |-> tags, from |-> from, to |-> to]

dueFilters(state) ==
    IF state.due /\ state.noDue THEN <<>>
    ELSE IF state.due THEN <<TaskFilter("due", NULL, <<>>, NULL, NULL)>>
    ELSE IF state.noDue THEN <<TaskFilter("noDue", NULL, <<>>, NULL, NULL)>>
    ELSE <<>>

filtersFromConfig(state) ==
    dueFilters(state)
    \o <<TaskFilter("notHidden", NULL, <<>>, NULL, NULL)>>
    \o (IF state.selectDay \notin {"undefined", ""}
        THEN IF state.overdue
             THEN <<TaskFilter("dayOrOverdue", momentOf(state.selectDay), <<>>, NULL, NULL)>>
             ELSE <<TaskFilter("day", momentOf(state.selectDay), <<>>, NULL, NULL)>>
        ELSE <<>>)
    \o (IF state.completed = "true"
        THEN <<TaskFilter("checked", NULL, <<>>, NULL, NULL)>>
        ELSE IF state.completed = "false"
        THEN <<TaskFilter("unchecked", NULL, <<>>, NULL, NULL)>>
        ELSE <<>>)
    \o (IF Len(state.selectTags) > 0
        THEN <<TaskFilter("selectTags", NULL, state.selectTags, NULL, NULL)>>
        ELSE <<>>)
    \o (IF Len(state.omitTags) > 0
        THEN <<TaskFilter("omitTags", NULL, state.omitTags, NULL, NULL)>>
        ELSE <<>>)
    \o (IF state.selectWeek \notin {"undefined", ""}
        THEN LET weekStart == startOfWeek(momentOf(state.selectWeek))
                 weekEnd == weekStart + 7
             IN IF state.overdue
                THEN <<TaskFilter("beforeWeekEnd", NULL, <<>>, weekStart, weekEnd)>>
                ELSE <<TaskFilter("inWeek", NULL, <<>>, weekStart, weekEnd)>>
        ELSE <<>>)

(* new RegExp(`^${tag}`).test(noteTag), for the tags of the model *)
tagMatches(tag, noteTag) ==
    \/ tag = ""
    \/ tag = noteTag
    \/ tag = "work" /\ noteTag = "work/meetings"

someTagMatches(tags, noteTags) ==
    \E i \in DOMAIN tags : \E j \in DOMAIN noteTags : tagMatches(tags[i], noteTags[j])

(* the closure a filter stands for, applied to a task *)
accepts(f, task) ==
    CASE f.kind = "due" -> task.due # NULL
      [] f.kind = "noDue" -> task.due = NULL
      [] f.kind = "notHidden" -> task.hideUntil = NULL
      [] f.kind = "dayOrOverdue" ->
           \/ task.due = NULL
           \/ task.due = f.day
           \/ task.due < f.day /\ ~task.checked
      [] f.kind = "day" -> task.due = NULL \/ task.due = f.day
      [] f.kind = "checked" -> task.checked
      [] f.kind = "unchecked" -> ~task.checked
      [] f.kind = "selectTags" ->
           IF Len(task.tags) = 0 THEN FALSE ELSE someTagMatches(f.tags, task.tags)
      [] f.kind = "omitTags" ->
           IF Len(task.tags) = 0 THEN TRUE ELSE ~someTagMatches(f.tags, task.tags)
      [] f.kind = "beforeWeekEnd" -> task.due = NULL \/ task.due < f.to
      [] f.kind = "inWeek" ->
           task.due = NULL \/ (f.from <= task.due /\ task.due <= f.to)

(* a task passes a filter list when every filter of the list accepts it *)
passes(filters, task) == \A i \in DOMAIN filters : accepts(filters[i], task)

NoTask == [due |-> NULL, hideUntil |-> NULL, checked |-> FALSE, tags |-> <<>>]

(* a task list before its config is read: pc is the step the list is at,   *)
(* lines the config given, state the parsed config, filters the list built *)
(* from it, task the task last offered to the list and pass what the list  *)
(* answered                                                                *)
NewTaskList ==
    [pc |-> "new", lines |-> <<>>, state |-> TaskListConfigDefaults,
     filters |-> <<>>, task |-> NoTask, pass |-> FALSE]

Init ==
    /\ rule \in {NewRule(o) : o \in RuleInputs}
    /\ qdates = QDates(rule.options)
    /\ it = IdleIt
    /\ log = <<>>
    /\ budget = 1
    /\ rset = RSetNone
    /\ slog = <<>>
    /\ sbudget = 0
    /\ adapter = NewAdapter(rule, 0)
    /\ tasklist = NewTaskList

InitCache ==
    /\ rule \in {NewRule(o) : o \in CacheRuleInputs}
    /\ qdates = CacheQDates(rule.options)
    /\ it = IdleIt
    /\ log = <<>>
    /\ budget = MaxCalls
    /\ rset = RSetNone
    /\ slog = <<>>
    /\ sbudget = 0
    /\ adapter = NewAdapter(rule, 0)
    /\ tasklist = NewTaskList

LogEntry(method, args, cb, value, cached, item) ==
    [method |-> method, args |-> args, cb |-> cb, value |-> value, cached |-> cached,
     item |-> item]

(* all / before / after / between after _cacheGet gave g: the cached       *)
(* value is returned, or _iter is called                                   *)
CallFrom(method, args, g) ==
    IF g.hit THEN
        /\ rule' = [rule EXCEPT !.cache = g.cache]
        /\ log' = Append(log, LogEntry(method, args, NULL, g.value, TRUE, g.item))
        /\ it' = it
    ELSE
        /\ it' = iterStart(IterResult(method, args, NULL), rule.options)
        /\ UNCHANGED <<rule, log>>

(* all / before / after / between up to the call of _iter                  *)
Call(method, args) ==
    /\ it.pc = "idle"
    /\ budget > 0
    /\ budget' = budget - 1
    /\ CallFrom(method, args, cacheGet(rule.cache, method, args))
    /\ UNCHANGED qdates
    /\ UNCHANGED <<setVars, adapter, tasklist>>

CallAll == Call("all", NoArgs)

CallBefore ==
    \E dt \in qdates, inc \in BOOLEAN :
        Call("before", [NoArgs EXCEPT !.dt = dt, !.inc = inc])

CallAfter ==
    \E dt \in qdates, inc \in BOOLEAN :
        Call("after", [NoArgs EXCEPT !.dt = dt, !.inc = inc])

CallBetween ==
    \E a \in qdates, b \in qdates, inc \in BOOLEAN :
        /\ DateLt(a, b)
        /\ Call("between", [NoArgs EXCEPT !.after = a, !.before = b, !.inc = inc])

(* RepeatAdapter.next(n): rrule.all((_, len) => len < n)                   *)
next(n) ==
    /\ it.pc = "idle"
    /\ budget > 0
    /\ budget' = budget - 1
    /\ it' = iterStart(IterResult("all", NoArgs, n), rule.options)
    /\ UNCHANGED <<rule, log, qdates>>
    /\ UNCHANGED <<setVars, adapter, tasklist>>

CallNext == \E n \in 0..MaxNext : next(n)

(* one pass of the loop of iter                                            *)
Period ==
    /\ it.pc = "period"
    /\ it' = periodStep(it, rule.options)
    /\ UNCHANGED <<rule, log, budget, qdates>>
    /\ UNCHANGED <<setVars, adapter, tasklist>>

(* one pass of the loop of addHours / addMinutes / addSeconds              *)
AddStep ==
    /\ it.pc = "add"
    /\ ~hangs(it)
    /\ it' = addStep(it, rule.options)
    /\ UNCHANGED <<rule, log, budget, qdates>>
    /\ UNCHANGED <<setVars, adapter, tasklist>>

(* the caller of _iter got v                                               *)
ReturnTo(v) ==
    /\ rule' = IF it.r.cb = NULL
               THEN [rule EXCEPT !.cache = cacheAdd(@, it.r.method, v, it.r.args)]
               ELSE rule
    /\ log' = Append(log, LogEntry(it.r.method, it.r.args, it.r.cb, v, FALSE, <<>>))

(* emitResult, and _cacheAdd in the caller unless a callback was given     *)
Return ==
    /\ it.pc = "done"
    /\ ReturnTo(getValue(it.r))
    /\ it' = [it EXCEPT !.pc = "idle"]
    /\ UNCHANGED <<budget, qdates>>
    /\ UNCHANGED <<setVars, adapter, tasklist>>

Next ==
    \/ CallAll
    \/ CallBefore
    \/ CallAfter
    \/ CallBetween
    \/ CallNext
    \/ Period
    \/ AddStep
    \/ Return

Spec == Init /\ [][Next]_vars

SpecCache == InitCache /\ [][Next]_vars

-----------------------------------------------------------------------------
(* RRuleSet.  rset is the set object: its rule objects in the order they   *)
(* were added, its sorted date lists and its own cache.  slog holds the    *)
(* queries that returned, each with the members the set had at that time;  *)
(* sbudget the operations still to be made.                                *)

(* String(rrule): optionsToString(origOptions) writes DTSTART and UNTIL    *)
(* to the second                                                           *)
ruleString(orig) ==
    [orig EXCEPT !.dtstart = [@ EXCEPT !.millisecond = 0],
                 !.until = IF @ = NullDate THEN @
                           ELSE [d |-> @.d, t |-> @.t - (@.t % 1000)]]

(* _addRule *)
addRule(ruleObj, collection) ==
    IF \E k \in 1..Len(collection) :
           ruleString(collection[k].orig) = ruleString(ruleObj.orig)
    THEN collection
    ELSE Append(collection, ruleObj)

(* _addDate *)
addDate(date, collection) ==
    IF date \in Range(collection) THEN collection
    ELSE sortDates(Append(collection, date))

RECURSIVE acceptRdates(_, _, _)
(* the loop of iterSet over _rdate after accept returned a                 *)
rdateAccepted(a, rdate, i) ==
    IF a.cont THEN acceptRdates(a.r, rdate, i + 1) ELSE a.r

(* the loop of iterSet over _rdate, left at the first accept that is false *)
acceptRdates(r, rdate, i) ==
    IF i > Len(rdate) THEN r
    ELSE rdateAccepted(accept(r, rdate[i]), rdate, i)

RECURSIVE iterRules(_, _, _)
(* _rrule.forEach(rrule => iter(iterResult, rrule.options))                *)
iterRules(r, rrule, k) ==
    IF k > Len(rrule) THEN r
    ELSE iterRules(iterRun(iterStart(r, rrule[k].options), rrule[k].options).r,
                   rrule, k + 1)

(* the value iterSet returns from the sorted result                        *)
setValue(method, res) ==
    IF method \in {"all", "between"} THEN res
    ELSE IF Len(res) = 0 THEN <<>>
    ELSE IF method = "before" THEN <<res[Len(res)]>>
    ELSE <<res[1]>>

(* iterSet up to its loops: _exdateHash, and the functions put in place    *)
(* of accept                                                               *)
setWrapped(r0, st) ==
    [r0 EXCEPT !.hash = Range(st.exdate), !.exr = st.exrule,
               !.wrap = IF r0.method = "between" THEN "between" ELSE "set"]

(* evalExdate(args.after, args.before) of a between query                  *)
setExcluded(r) ==
    IF r.method = "between" THEN evalExdate(r, r.args.after, r.args.before, 1)
    ELSE r

(* iterSet up to the sort of the result                                    *)
setIterated(r0, st) ==
    iterRules(acceptRdates(setExcluded(setWrapped(r0, st)), st.rdate, 1),
              st.rrule, 1)

(* what iterSet leaves: the value, the exrules with the caches they have   *)
(* then, the iterResult                                                    *)
setReturned(r, res) ==
    [value |-> setValue(r.method, res), exr |-> r.exr, r |-> r]

(* the end of iterSet for the iterResult r                                 *)
setSorted(r) == setReturned(r, sortDates(r.result))

(* iterSet without the sort of the result                                  *)
iterSetUnsorted(r0, st) ==
    LET r == setIterated(r0, st) IN setReturned(r, r.result)

(* iterSet: the value, and the exrules with the caches they have then      *)
iterSet(r0, st) == setSorted(setIterated(r0, st))

(* the set object after iterSet returned run                               *)
setRan(st, method, args, cb, run) ==
    [value |-> run.value, cached |-> FALSE,
     set |-> [st EXCEPT !.exrule = run.exr,
                        !.cache = IF cb = NULL
                                  THEN cacheAdd(@, method, run.value, args)
                                  ELSE @]]

(* all / between / before / after of RRule on the set, after _cacheGet     *)
setQueryFrom(st, method, args, cb, g) ==
    IF g.hit
    THEN [value |-> g.value, cached |-> TRUE, set |-> [st EXCEPT !.cache = g.cache]]
    ELSE setRan(st, method, args, cb, iterSet(IterResult(method, args, cb), st))

(* all / between / before / after of RRule on the set object               *)
setQuery(st, method, args, cb) ==
    setQueryFrom(st, method, args, cb,
                 IF cb = NULL THEN cacheGet(st.cache, method, args)
                 ELSE [hit |-> FALSE, value |-> <<>>, cache |-> st.cache,
                       item |-> <<>>])

SetStart == Civil(2024, 1, 3, 19, 56, 56, 0)

(* the rules given to rrule(): daily and weekly from SetStart              *)
SetRuleInputs ==
    {MkRule(DAILY, SetStart, 0, 1, [count |-> MaxCount + 1, until |-> NullDate], NoBy),
     MkRule(WEEKLY, SetStart, 0, 1, [count |-> MaxCount, until |-> NullDate], NoBy)}

(* the rule given to exrule(): every second day from SetStart              *)
SetExruleInputs ==
    {MkRule(DAILY, SetStart, 0, 2, [count |-> MaxCount, until |-> NullDate], NoBy)}

(* the dates given to rdate() and exdate(), and the bounds of the queries  *)
SetRdates == {Shift(DateOf(SetStart), DAILY, 1, 0), Shift(DateOf(SetStart), DAILY, 5, 0)}
SetExdates == {Shift(DateOf(SetStart), DAILY, 1, 0), Shift(DateOf(SetStart), DAILY, 7, 0)}
SetQDates == {Shift(DateOf(SetStart), DAILY, 1, 0)}

InitSet ==
    /\ rule \in {NewRule(o) : o \in NoSlotInputs}
    /\ qdates = {}
    /\ it = IdleIt
    /\ log = <<>>
    /\ budget = 0
    /\ rset = RSetNone
    /\ slog = <<>>
    /\ sbudget = MaxSetOps
    /\ adapter = NewAdapter(rule, 0)
    /\ tasklist = NewTaskList

SetOp(st) ==
    /\ sbudget > 0
    /\ sbudget' = sbudget - 1
    /\ rset' = st
    /\ UNCHANGED slog
    /\ UNCHANGED <<ruleVars, adapter, tasklist>>

(* RRuleSet.prototype.rrule *)
AddRrule ==
    \E o \in SetRuleInputs : SetOp([rset EXCEPT !.rrule = addRule(NewRule(o), @)])

(* RRuleSet.prototype.exrule *)
AddExrule ==
    \E o \in SetExruleInputs : SetOp([rset EXCEPT !.exrule = addRule(NewRule(o), @)])

(* RRuleSet.prototype.rdate *)
AddRdate ==
    \E d \in SetRdates : SetOp([rset EXCEPT !.rdate = addDate(d, @)])

(* RRuleSet.prototype.exdate *)
AddExdate ==
    \E d \in SetExdates : SetOp([rset EXCEPT !.exdate = addDate(d, @)])

SetLogEntry(method, args, cb, q) ==
    [method |-> method, args |-> args, cb |-> cb, value |-> q.value,
     cached |-> q.cached,
     rrule |-> [k \in 1..Len(rset.rrule) |-> rset.rrule[k].orig],
     exrule |-> [k \in 1..Len(rset.exrule) |-> rset.exrule[k].orig],
     rdate |-> rset.rdate, exdate |-> rset.exdate]

(* the query returned q                                                    *)
SetCalled(method, args, cb, q) ==
    /\ rset' = q.set
    /\ slog' = Append(slog, SetLogEntry(method, args, cb, q))

SetCall(method, args, cb) ==
    /\ sbudget > 0
    /\ sbudget' = sbudget - 1
    /\ SetCalled(method, args, cb, setQuery(rset, method, args, cb))
    /\ UNCHANGED <<ruleVars, adapter, tasklist>>

SetAll == SetCall("all", NoArgs, NULL)

(* all((_, len) => len < n) on the set                                     *)
SetNext == \E n \in 1..MaxNext : SetCall("all", NoArgs, n)

SetBetween ==
    \E b \in SetQDates, inc \in BOOLEAN :
        /\ DateLt(DateOf(SetStart), b)
        /\ SetCall("between", [NoArgs EXCEPT !.after = DateOf(SetStart),
                                             !.before = b, !.inc = inc], NULL)

SetBefore ==
    \E dt \in SetQDates : SetCall("before", [NoArgs EXCEPT !.dt = dt, !.inc = TRUE], NULL)

SetAfter ==
    \E dt \in SetQDates : SetCall("after", [NoArgs EXCEPT !.dt = dt, !.inc = TRUE], NULL)

NextSet ==
    \/ AddRrule
    \/ AddExrule
    \/ AddRdate
    \/ AddExdate
    \/ SetAll
    \/ SetNext
    \/ SetBetween
    \/ SetBefore
    \/ SetAfter

SpecSet == InitSet /\ [][NextSet]_vars

-----------------------------------------------------------------------------
(* RepeatAdapter (src/src/repeat.ts).  The adapter holds the rule object   *)
(* it was constructed with and its subscriptions; its setters write to     *)
(* rrule.options and rrule.origOptions.  undefined is written as null.     *)

(* set frequency, past its test of the value                               *)
setFrequency(r, f) ==
    [r EXCEPT !.options.freq = f, !.orig.freq = f,
              !.options.bymonth = NL, !.orig.bymonth = NL,
              !.options.bymonthday = NL, !.orig.bymonthday = NL,
              !.options.byweekday = NL, !.orig.byweekday = NLP]

(* const newVal = n ? n : 1 *)
intervalValue(n) == IF n = NULL \/ n = 0 THEN 1 ELSE n

(* set interval, when newVal !== this.rrule.options.interval               *)
setInterval(r, n) == [r EXCEPT !.options.interval = intervalValue(n)]

(* setDaysOfWeek: new Weekday(id) has no ordinal                           *)
setDaysOfWeek(r, ids) ==
    [r EXCEPT !.orig.byweekday = [i \in 1..Len(ids) |-> <<ids[i], 0>>],
              !.options.byweekday = ids]

(* set dayOfMonth *)
setDayOfMonth(r, n) ==
    [r EXCEPT !.orig.bymonthday = <<n>>, !.options.bymonthday = <<n>>,
              !.orig.byweekday = <<>>]

(* set lastDayOfMonth *)
setLastDayOfMonth(r, val) ==
    IF val
    THEN [r EXCEPT !.orig.bymonthday = <<0 - 1>>, !.options.bymonthday = <<0 - 1>>]
    ELSE [r EXCEPT !.orig.bymonthday = <<>>, !.options.bymonthday = <<>>]

(* setWeekDaysOfMonth: selected holds the pairs <<weekDay, week>>          *)
setWeekDaysOfMonth(r, selected) ==
    [r EXCEPT !.orig.byweekday = selected, !.orig.bymonthday = NL,
              !.options.bymonthday = <<>>]

(* setMonthsOfYear *)
setMonthsOfYear(r, ids) == [r EXCEPT !.orig.bymonth = ids, !.options.bymonth = ids]

(* notify: the hooks of this.subscriptions, in order                       *)
notify(subs) == [i \in 1..Len(subs) |-> subs[i].hook]

(* maxID of subscribe *)
maxID(subs) ==
    IF Len(subs) = 0 THEN 0
    ELSE CHOOSE m \in {subs[i].id : i \in 1..Len(subs)} :
             \A i \in 1..Len(subs) : subs[i].id <= m

(* the hooks that subscribed and whose unsubscribe function was not called *)
liveHooks(a) == {k \in 1..Len(a.issued) : ~a.issued[k].undone}

(* one operation on the adapter: what it was, whether it went on to change *)
(* the rule, the hooks live before it and the hooks it called              *)
AdapterOp(op, arg, applied, notified) ==
    [op |-> op, arg |-> arg, applied |-> applied, live |-> liveHooks(adapter),
     notified |-> notified]

(* a setter that ran to its end: the rule is written, then notify()        *)
Setter(op, arg, r) ==
    /\ it.pc = "idle"
    /\ adapter.budget > 0
    /\ rule' = r
    /\ adapter' = [adapter EXCEPT !.budget = @ - 1,
                                  !.ops = Append(@, AdapterOp(op, arg, TRUE,
                                                              notify(adapter.subs)))]
    /\ UNCHANGED <<qdates, it, log, budget>>
    /\ UNCHANGED <<setVars, tasklist>>

(* a setter that returned or threw before it wrote anything                *)
SetterLeft(op, arg) ==
    /\ it.pc = "idle"
    /\ adapter.budget > 0
    /\ adapter' = [adapter EXCEPT !.budget = @ - 1,
                                  !.ops = Append(@, AdapterOp(op, arg, FALSE, <<>>))]
    /\ UNCHANGED ruleVars
    /\ UNCHANGED <<setVars, tasklist>>

(* the values the model gives to the setters                               *)
AdapterFrequencies == {MONTHLY, DAILY, HOURLY}
AdapterIntervals == {0, 2}
AdapterDays == {<<0, 2>>}
AdapterMonthDays == {15}
AdapterWeekDays == {<< <<1, 2>> >>}
AdapterMonths == {<<12>>}

SetFrequency ==
    \E f \in AdapterFrequencies :
        IF f \in {YEARLY, MONTHLY, WEEKLY, DAILY}
        THEN Setter("frequency", <<f>>, setFrequency(rule, f))
        ELSE SetterLeft("frequency", <<f>>)

SetInterval ==
    \E n \in AdapterIntervals :
        IF intervalValue(n) # rule.options.interval
        THEN Setter("interval", <<n>>, setInterval(rule, n))
        ELSE SetterLeft("interval", <<n>>)

SetDaysOfWeek ==
    \E ids \in AdapterDays : Setter("setDaysOfWeek", ids, setDaysOfWeek(rule, ids))

SetDayOfMonth ==
    \E n \in AdapterMonthDays : Setter("dayOfMonth", <<n>>, setDayOfMonth(rule, n))

SetLastDayOfMonth ==
    \E val \in BOOLEAN :
        Setter("lastDayOfMonth", <<val>>, setLastDayOfMonth(rule, val))

SetWeekDaysOfMonth ==
    \E sel \in AdapterWeekDays :
        Setter("setWeekDaysOfMonth", sel, setWeekDaysOfMonth(rule, sel))

SetMonthsOfYear ==
    \E ids \in AdapterMonths : Setter("setMonthsOfYear", ids, setMonthsOfYear(rule, ids))

(* subscribe: the hook is the next one in the order of subscription        *)
Subscribe ==
    /\ it.pc = "idle"
    /\ adapter.budget > 0
    /\ adapter' =
           [adapter EXCEPT
               !.budget = @ - 1,
               !.subs = Append(@, [id |-> maxID(adapter.subs) + 1,
                                   hook |-> Len(adapter.issued) + 1]),
               !.issued = Append(@, [id |-> maxID(adapter.subs) + 1, undone |-> FALSE]),
               !.ops = Append(@, AdapterOp("subscribe", <<Len(adapter.issued) + 1>>,
                                           FALSE, <<Len(adapter.issued) + 1>>))]
    /\ UNCHANGED ruleVars
    /\ UNCHANGED <<setVars, tasklist>>

(* a call of a function that subscribe returned                            *)
Unsubscribe ==
    \E k \in 1..Len(adapter.issued) :
        /\ it.pc = "idle"
        /\ adapter.budget > 0
        /\ adapter' =
               [adapter EXCEPT
                   !.budget = @ - 1,
                   !.subs = SelectSeq(@, LAMBDA x : x.id # adapter.issued[k].id),
                   !.issued[k].undone = TRUE,
                   !.ops = Append(@, AdapterOp("unsubscribe", <<k>>, FALSE, <<>>))]
        /\ UNCHANGED ruleVars
        /\ UNCHANGED <<setVars, tasklist>>

(* the rules an adapter is made with: daily and hourly, shortly before the *)
(* end of year MAXYEAR                                                     *)
AdapterRuleInputs ==
    UNION {{MkRule(freq, st, 0, 1, [count |-> NULL, until |-> NullDate], NoBy) :
               st \in LateStarts(freq)} : freq \in {DAILY, HOURLY}}

InitAdapter ==
    /\ rule \in {NewRule(o) : o \in AdapterRuleInputs}
    /\ qdates = {Shift(DateOf(rule.options.dtstart), rule.options.freq, k, 0) : k \in 1..2}
    /\ it = IdleIt
    /\ log = <<>>
    /\ budget = 1
    /\ rset = RSetNone
    /\ slog = <<>>
    /\ sbudget = 0
    /\ adapter = NewAdapter(rule, MaxAdapterOps)
    /\ tasklist = NewTaskList

NextAdapter ==
    \/ SetFrequency
    \/ SetInterval
    \/ SetDaysOfWeek
    \/ SetDayOfMonth
    \/ SetLastDayOfMonth
    \/ SetWeekDaysOfMonth
    \/ SetMonthsOfYear
    \/ Subscribe
    \/ Unsubscribe
    \/ Next

SpecAdapter == InitAdapter /\ [][NextAdapter]_vars

-----------------------------------------------------------------------------
(* Conversion to text.  rule.keys holds the keys of origOptions in the     *)
(* order the options were given; the words of the text are not modelled,   *)
(* only which text is returned and whether it ends with "(~ approximate)". *)

MaxTextCalls == 2

(* ToText.IMPLEMENTED *)
commonKeys == {"count", "until", "interval", "byweekday", "bymonthday", "bymonth"}

IMPLEMENTED(freq) ==
    IF freq = DAILY THEN {"byhour"} \cup commonKeys
    ELSE IF freq = YEARLY THEN {"byweekno", "byyearday"} \cup commonKeys
    ELSE commonKeys

RECURSIVE convertibleFrom(_, _, _)
(* the loop of ToText.isFullyConvertible over the keys of origOptions      *)
convertibleFrom(keys, i, freq) ==
    IF i > Len(keys) THEN TRUE
    ELSE IF keys[i] \in {"dtstart", "wkst", "freq"} THEN TRUE
    ELSE IF keys[i] \notin IMPLEMENTED(freq) THEN FALSE
    ELSE convertibleFrom(keys, i + 1, freq)

(* ToText.isFullyConvertible *)
isFullyConvertible(r) ==
    IF r.options.freq = SECONDLY THEN FALSE
    ELSE IF r.orig.until # NullDate /\ r.orig.count # NULL /\ r.orig.count # 0 THEN FALSE
    ELSE convertibleFrom(r.keys, 1, r.options.freq)

(* ToText.prototype.toString *)
ruleToText(r) ==
    IF r.options.freq = SECONDLY THEN [kind |-> "error", approximate |-> FALSE]
    ELSE [kind |-> "text", approximate |-> ~isFullyConvertible(r)]

(* RepeatAdapter.toText *)
adapterToText(r) ==
    IF isFullyConvertible(r) THEN ruleToText(r)
    ELSE [kind |-> "string", approximate |-> FALSE]

(* the permutations of a set of keys *)
Orders(ks) ==
    {s \in [1..Cardinality(ks) -> ks] : \A i, j \in 1..Cardinality(ks) : s[i] = s[j] => i = j}

(* rules with one option beside freq and dtstart, given in every order     *)
TextInputsAt(st) ==
    {[o |-> MkRule(DAILY, st, 0, 2, [count |-> NULL, until |-> NullDate], NoBy),
      ks |-> {"freq", "dtstart", "interval"}],
     [o |-> [MkRule(DAILY, st, 0, 1, [count |-> NULL, until |-> NullDate], NoBy)
                EXCEPT !.bysetpos = <<1>>],
      ks |-> {"freq", "dtstart", "bysetpos"}],
     [o |-> [MkRule(MONTHLY, st, 0, 1, [count |-> NULL, until |-> NullDate], NoBy)
                EXCEPT !.byyearday = <<364>>],
      ks |-> {"freq", "dtstart", "byyearday"}],
     [o |-> MkRule(YEARLY, st, 0, 1, [count |-> NULL, until |-> NullDate],
                   [NoBy EXCEPT !.sec = <<56>>]),
      ks |-> {"freq", "dtstart", "bysecond"}],
     [o |-> MkRule(SECONDLY, st, 0, 1, [count |-> NULL, until |-> NullDate], NoBy),
      ks |-> {"freq", "dtstart"}]}

TextInputs == UNION {TextInputsAt(st) : st \in LateStarts(DAILY)}

InitText ==
    /\ rule \in UNION {{[keys |-> s] @@ NewRule(x.o) : s \in Orders(x.ks)} :
                       x \in TextInputs}
    /\ qdates = {}
    /\ it = IdleIt
    /\ log = <<>>
    /\ budget = MaxTextCalls
    /\ rset = RSetNone
    /\ slog = <<>>
    /\ sbudget = 0
    /\ adapter = NewAdapter(rule, 0)
    /\ tasklist = NewTaskList

TextCall(method, value) ==
    /\ budget > 0
    /\ budget' = budget - 1
    /\ log' = Append(log, LogEntry(method, NoArgs, NULL, value, FALSE, <<>>))
    /\ UNCHANGED <<rule, qdates, it>>
    /\ UNCHANGED <<setVars, adapter, tasklist>>

(* rrule.toText() *)
RuleToText == TextCall("toText", ruleToText(rule))

(* adapter.toText() *)
AdapterToText == TextCall("adapter.toText", adapterToText(rule))

NextText ==
    \/ RuleToText
    \/ AdapterToText

SpecText == InitText /\ [][NextText]_vars

-----------------------------------------------------------------------------
(* Properties of a single rule (Spec)                                      *)

(* a call of the rule has been started; it keeps the locals of the last    *)
(* call after its return                                                   *)
Started == it.pc \in {"period", "add", "done"} \/ Len(log) > 0

Returned == it.pc = "done" \/ (it.pc = "idle" /\ Len(log) > 0)

(* what all() without callback and without cache gives for the rule        *)
allOccurrences ==
    iterRun(iterStart(IterResult("all", NoArgs, NULL), rule.options), rule.options).r.result

Min(a, b) == IF a < b THEN a ELSE b

(* C1: a rule with count = N and no until, asked for all its occurrences,  *)
(* has taken one from the remaining count for every date in the result     *)
(* and none for a candidate below the start; every date in the result is   *)
(* at or after the start; and when the iteration has returned before the   *)
(* clock left the supported years the result has exactly N dates.          *)
C1_CountExact ==
    (/\ it.pc \in {"period", "add", "done"}
     /\ it.r.method = "all" /\ it.r.cb = NULL
     /\ rule.options.count # NULL /\ rule.options.count >= 1
     /\ rule.options.until = NullDate)
    => /\ it.count = rule.options.count - Len(it.r.result)
       /\ \A i \in 1..Len(it.r.result) :
              DateLe(DateOf(rule.options.dtstart), it.r.result[i])
       /\ (it.pc = "done" /\ it.c.year <= MAXYEAR
           => Len(it.r.result) = rule.options.count)

(* a rule with count = MaxCount returned MaxCount dates after it skipped   *)
(* candidates below its start                                              *)
C1_Witness ==
    /\ it.pc = "done"
    /\ it.r.method = "all" /\ it.r.cb = NULL
    /\ rule.options.count = MaxCount
    /\ Len(it.r.result) = MaxCount
    /\ it.skipped > 0

(* the moment k * interval periods after the start of the rule             *)
plusPeriods(o, k) ==
    LET st == o.dtstart
        n == k * o.interval
        time == TimeOf(st.hour, st.minute, st.second, st.millisecond)
        months == st.month - 1 + n
    IN  IF o.freq = YEARLY
        THEN [d |-> toOrdinal(st.year + n, st.month, st.day), t |-> time]
        ELSE IF o.freq = MONTHLY
        THEN [d |-> toOrdinal(st.year + (months \div 12), (months % 12) + 1, st.day),
              t |-> time]
        ELSE Shift(DateOf(st), o.freq, n, 0)

noByRules(orig) ==
    /\ orig.bysetpos = NL /\ orig.bymonth = NL /\ orig.bymonthday = NL
    /\ orig.byyearday = NL /\ orig.byweekday = NLP /\ orig.byhour = NL
    /\ orig.byminute = NL /\ orig.bysecond = NL

(* C3: for a rule without BY-rules the i-th date of all() is the start     *)
(* plus (i - 1) * interval periods of its frequency: the first is the      *)
(* start and each next one is exactly interval periods later.              *)
C3_EvenSpacing ==
    (Started /\ it.r.method = "all" /\ it.r.cb = NULL /\ noByRules(rule.orig))
    => \A i \in 1..Len(it.r.result) :
           it.r.result[i] = plusPeriods(rule.options, i - 1)

(* C8: an iteration that is still running has a clock year of at most one  *)
(* past MAXYEAR: once the year exceeds MAXYEAR the iteration ends.         *)
C8_EndsAtMaxYear ==
    it.pc \in {"period", "add"} => it.c.year <= MAXYEAR + 1

(* C9: with the callback (_, len) => len < n the callback is called once   *)
(* for every date offered, with that date and the number of dates already  *)
(* in the result; the first call that is false ends the iteration and its  *)
(* date is not in the result; next(n) gives the first min(n, number of     *)
(* occurrences) dates of the rule in order.                                *)
C9_CallbackStops ==
    (Started /\ it.r.cb # NULL)
    => /\ Len(it.r.cbCalls) = Len(it.r.offered)
       /\ \A i \in 1..Len(it.r.cbCalls) : it.r.cbCalls[i] = <<it.r.offered[i], i - 1>>
       /\ Len(it.r.cbCalls) <= it.r.cb + 1
       /\ it.r.result = SubSeq(it.r.offered, 1, Min(it.r.cb, Len(it.r.offered)))
       /\ (Len(it.r.cbCalls) = it.r.cb + 1 => Returned)
       /\ (Returned =>
              it.r.result = SubSeq(allOccurrences, 1, Min(it.r.cb, Len(allOccurrences))))

(* next(MaxNext) ended by the callback: one call more than dates kept      *)
C9_Witness ==
    /\ it.pc = "done"
    /\ it.r.cb = MaxNext
    /\ Len(it.r.result) = MaxNext
    /\ Len(it.r.cbCalls) = MaxNext + 1

(* the first date of s, in order, at or after the bound of after(dt, inc)  *)
firstFrom(s, dt, inc) ==
    LET ok == {i \in 1..Len(s) : IF inc THEN DateLe(dt, s[i]) ELSE DateLt(dt, s[i])}
    IN  IF ok = {} THEN <<>> ELSE <<s[CHOOSE i \in ok : \A j \in ok : i <= j]>>

-----------------------------------------------------------------------------
(* Properties of the calls made one after another on one rule (SpecCache)  *)

(* what the iterator gives for a query on the rule, without any cache      *)
fresh(method, args) ==
    getValue(iterRun(iterStart(IterResult(method, args, NULL), rule.options),
                     rule.options).r)

(* C4: when before(X, true) is followed by after(X, true) on the rule and  *)
(* X is an occurrence of the rule, both calls return X.                    *)
C4_BeforeAfterSame ==
    \A i \in 1..(Len(log) - 1) :
        (/\ log[i].method = "before" /\ log[i].args.inc
         /\ log[i + 1].method = "after" /\ log[i + 1].args.inc
         /\ log[i + 1].args.dt = log[i].args.dt
         /\ log[i].args.dt \in Range(allOccurrences))
        => (log[i].value = <<log[i].args.dt>> /\ log[i + 1].value = <<log[i].args.dt>>)

(* C6: a call that returns the value of a cache entry has the arguments    *)
(* the entry was stored with; bounds that differ by a millisecond do not   *)
(* share an entry.                                                         *)
C6_CacheKeyExact ==
    \A i \in 1..Len(log) :
        log[i].item # <<>> => log[i].item = <<log[i].args>>

(* C7: once all() has returned on the rule, every later before / after /   *)
(* between is answered from the cache and its value is the one the         *)
(* iterator gives for that query.                                          *)
C7_CacheEqualsIterator ==
    \A j \in 1..Len(log) : \A i \in (j + 1)..Len(log) :
        (log[j].method = "all" /\ log[j].cb = NULL /\ log[i].method # "all")
        => (log[i].cached /\ log[i].value = fresh(log[i].method, log[i].args))

(* C10: every after(dt, inc) on the rule returns the first date, in the    *)
(* order the rule generates them, that is at or after dt when inc is true  *)
(* and after dt otherwise, or nothing when there is none.                  *)
C10_AfterFirst ==
    \A i \in 1..Len(log) :
        log[i].method = "after"
        => log[i].value = firstFrom(allOccurrences, log[i].args.dt, log[i].args.inc)

-----------------------------------------------------------------------------
(* Properties of the set (SpecSet)                                         *)

strictlyAscending(s) == \A i \in 1..(Len(s) - 1) : DateLt(s[i], s[i + 1])

dailyOrig == CHOOSE o \in SetRuleInputs : o.freq = DAILY

(* C2: when two all() calls on the set have the same rules, exrules and    *)
(* rdates and the later one has more exdates, the later result is the      *)
(* earlier result without the exdates added in between.                    *)
C2_ExdateRemoves ==
    \A i \in 1..Len(slog) : \A j \in (i + 1)..Len(slog) :
        (/\ slog[i].method = "all" /\ slog[i].cb = NULL
         /\ slog[j].method = "all" /\ slog[j].cb = NULL
         /\ slog[j].rrule = slog[i].rrule /\ slog[j].exrule = slog[i].exrule
         /\ slog[j].rdate = slog[i].rdate
         /\ Range(slog[i].exdate) \subseteq Range(slog[j].exdate)
         /\ slog[i].exdate # slog[j].exdate)
        => slog[j].value =
               SelectSeq(slog[i].value,
                         LAMBDA d : d \notin Range(slog[j].exdate) \ Range(slog[i].exdate))

(* C5: the value of every query on the set is in strictly ascending order, *)
(* so it holds no timestamp twice; so are the rdate and exdate lists.      *)
C5_SortedNoDuplicates ==
    /\ \A i \in 1..Len(slog) : strictlyAscending(slog[i].value)
    /\ strictlyAscending(rset.rdate)
    /\ strictlyAscending(rset.exdate)

(* all() ran on a set whose daily rule also gives the first rdate, while   *)
(* the rdates were accepted before the dates of the rule                   *)
C5_Witness ==
    \E i \in 1..Len(slog) :
        /\ slog[i].method = "all" /\ slog[i].cb = NULL /\ ~slog[i].cached
        /\ dailyOrig \in Range(slog[i].rrule)
        /\ Len(slog[i].rdate) >= 1
        /\ slog[i].rdate[1] \in Range(slog[i].value)
        /\ DateLt(slog[i].value[1], slog[i].rdate[1])
        /\ slog[i].exdate = <<>> /\ slog[i].exrule = <<>>

-----------------------------------------------------------------------------
(* Properties of between (Spec)                                            *)

(* d lies in the interval of between(after, before, inc)                   *)
inInterval(d, after, before, inc) ==
    IF inc THEN DateLe(after, d) /\ DateLe(d, before)
    ELSE DateLt(after, d) /\ DateLt(d, before)

(* C11: every between(after, before, inc) on a rule returns the            *)
(* occurrences of the rule that lie in the interval, closed when inc is    *)
(* true and open otherwise, in ascending order.                            *)
C11_BetweenExact ==
    \A i \in 1..Len(log) :
        log[i].method = "between"
        => log[i].value =
               sortDates(SelectSeq(allOccurrences,
                                   LAMBDA d : inInterval(d, log[i].args.after,
                                                         log[i].args.before,
                                                         log[i].args.inc)))

-----------------------------------------------------------------------------
(* Properties of the adapter (SpecAdapter)                                 *)

(* hooks subscribe and unsubscribe between the setter calls; no query is   *)
(* made                                                                    *)
InitSubs ==
    /\ rule \in {NewRule(o) : o \in {x \in AdapterRuleInputs : x.freq = DAILY}}
    /\ qdates = {}
    /\ it = IdleIt
    /\ log = <<>>
    /\ budget = 0
    /\ rset = RSetNone
    /\ slog = <<>>
    /\ sbudget = 0
    /\ adapter = NewAdapter(rule, MaxSubOps)
    /\ tasklist = NewTaskList

NextSubs ==
    \/ SetFrequency
    \/ SetInterval
    \/ SetDaysOfWeek
    \/ SetDayOfMonth
    \/ SetLastDayOfMonth
    \/ SetWeekDaysOfMonth
    \/ SetMonthsOfYear
    \/ Subscribe
    \/ Unsubscribe

SpecSubs == InitSubs /\ [][NextSubs]_vars

(* C12: no call of all / next / before / after / between on the rule of    *)
(* an adapter raises an error, whatever setters were called before it.    *)
C12_IterationNeverThrows == it.pc # "throw"

(* C13: the resolved options of the rule object the adapter was made with  *)
(* are at every moment the ones it had at construction.                    *)
C13_OptionsImmutable == rule.options = adapter.made.options

(* C14: every setter call that went on to change the rule called each hook *)
(* that had subscribed and not unsubscribed exactly once, and no other     *)
(* hook; every subscribe called the new hook once and no other hook.       *)
C14_SubscribersNotified ==
    \A i \in 1..Len(adapter.ops) :
        /\ adapter.ops[i].applied
           => (/\ Len(adapter.ops[i].notified) = Cardinality(adapter.ops[i].live)
               /\ Range(adapter.ops[i].notified) = adapter.ops[i].live)
        /\ adapter.ops[i].op = "subscribe"
           => adapter.ops[i].notified = adapter.ops[i].arg

-----------------------------------------------------------------------------
(* Properties of construction (Spec)                                       *)

(* a weekday of the options given to the constructor carries an ordinal    *)
hasOrdinal(orig) ==
    isPresentP(orig.byweekday)
    /\ \E i \in 1..Len(orig.byweekday) : orig.byweekday[i][2] # 0

(* C15: no rule object was made from options that give a weekday with an   *)
(* ordinal together with a frequency other than MONTHLY or YEARLY.         *)
C15_OrdinalNeedsMonthly ==
    hasOrdinal(rule.orig) => rule.orig.freq \in {YEARLY, MONTHLY}

(* the occurrences of the rule made from the options orig                  *)
occurrencesOf(orig) ==
    iterRun(iterStart(IterResult("all", NoArgs, NULL), parseOptions(orig)),
            parseOptions(orig)).r.result

(* C16: the resolved options of a rule never hold both a count and an      *)
(* until: a rule that was given both is bounded by one of them only.       *)
C16_OneEndActive ==
    ~(rule.options.count # NULL /\ rule.options.until # NullDate)

-----------------------------------------------------------------------------
(* Properties of the conversion to text (SpecText)                         *)

(* the options hold a key that is not implemented for the frequency        *)
hasUnimplementedKey(r) ==
    \E i \in 1..Len(r.keys) :
        r.keys[i] \notin IMPLEMENTED(r.options.freq) \cup {"dtstart", "wkst", "freq"}

(* C17: for a rule whose options hold a key that is not implemented for    *)
(* its frequency, in whatever order the keys were given, rrule.toText()    *)
(* ends with the approximate qualifier and adapter.toText() returns the    *)
(* canonical string.                                                       *)
C17_ApproximateMarked ==
    \A i \in 1..Len(log) :
        hasUnimplementedKey(rule)
        => /\ log[i].method = "toText" => log[i].value.approximate
           /\ log[i].method = "adapter.toText" => log[i].value.kind = "string"

-----------------------------------------------------------------------------
(* The canonical string of a rule and the rule read back from it           *)
(* (SpecString).  A string is modelled by the options it spells: DTSTART   *)
(* and UNTIL by the digits timeToUntilString writes, the numbers and the   *)
(* weekdays by their values (a list of one number is written as that       *)
(* number and parseOptions makes a list of it again).                      *)

MaxStringCalls == 3

(* dateutil.timeToUntilString of a Date: the day and hhmmss                *)
timeToUntilString(x) == [d |-> x.d, hms |-> x.t \div 1000]

(* dateutil.untilStringToDate: Date.UTC of the six numbers                 *)
untilStringToDate(s) == [d |-> s.d, t |-> s.hms * 1000]

(* buildDtstart: timeToUntilString of the start's fields                   *)
buildDtstart(c) ==
    [year |-> c.year, month |-> c.month, day |-> c.day,
     hour |-> c.hour, minute |-> c.minute, second |-> c.second]

(* parseDtstart: untilStringToDate of the text after DTSTART               *)
parseDtstart(s) ==
    [year |-> s.year, month |-> s.month, day |-> s.day,
     hour |-> s.hour, minute |-> s.minute, second |-> s.second, millisecond |-> 0]

(* optionsToString leaves out a key whose value is an empty list           *)
written(l) == IF Len(l) = 0 THEN NL ELSE l

(* optionsToString(origOptions) *)
optionsToString(orig) ==
    [orig EXCEPT !.dtstart = buildDtstart(@),
                 !.until = IF @ = NullDate THEN @ ELSE timeToUntilString(@),
                 !.bysetpos = written(@), !.bymonth = written(@),
                 !.bymonthday = written(@), !.byyearday = written(@),
                 !.byweekday = IF Len(@) = 0 THEN NLP ELSE @,
                 !.byhour = written(@), !.byminute = written(@),
                 !.bysecond = written(@)]

(* parseString *)
parseString(str) ==
    [str EXCEPT !.dtstart = parseDtstart(@),
                !.until = IF @ = NullDate THEN @ ELSE untilStringToDate(@)]

(* rules that end: by a count or by an until                               *)
StringRuleInputs == {o \in RuleInputs : o.count # NULL \/ o.until # NullDate}

InitString ==
    /\ rule \in {NewRule(o) : o \in StringRuleInputs}
    /\ qdates = {}
    /\ it = IdleIt
    /\ log = <<>>
    /\ budget = MaxStringCalls
    /\ rset = RSetNone
    /\ slog = <<>>
    /\ sbudget = 0
    /\ adapter = NewAdapter(rule, 0)
    /\ tasklist = NewTaskList

(* rule.all() *)
RuleAll == TextCall("all", occurrencesOf(rule.orig))

(* rule.toString() *)
RuleToString == TextCall("toString", optionsToString(rule.orig))

(* RRule.fromString(str).all(), str a string rule.toString() returned      *)
FromString ==
    \E i \in 1..Len(log) :
        /\ log[i].method = "toString"
        /\ TextCall("fromString.all", occurrencesOf(parseString(log[i].value)))

NextString ==
    \/ RuleAll
    \/ RuleToString
    \/ FromString

SpecString == InitString /\ [][NextString]_vars

(* C18: the rule read back from the canonical string of a rule that ends   *)
(* by a count or an until has the occurrences of that rule, whatever the   *)
(* milliseconds of its start.                                              *)
C18_RoundTrip ==
    \A i, j \in 1..Len(log) :
        log[i].method = "all" /\ log[j].method = "fromString.all"
        => log[j].value = log[i].value

-----------------------------------------------------------------------------
(* Rules by the week and by the month in January 2024 (SpecScenario)       *)

MaxFirst == 4

(* Monday 1, Wednesday 3 and Sunday 7 January 2024, at midnight            *)
ScenarioStarts ==
    {Civil(2024, 1, 1, 0, 0, 0, 0), Civil(2024, 1, 3, 0, 0, 0, 0),
     Civil(2024, 1, 7, 0, 0, 0, 0)}

(* weekly on Monday and Wednesday, four times, with the week starting on   *)
(* Monday or on Sunday                                                     *)
WeeklyInputs ==
    {[MkRule(WEEKLY, st, 0, iv, [count |-> 4, until |-> NullDate],
             [NoBy EXCEPT !.wd = << <<0, 0>>, <<2, 0>> >>]) EXCEPT !.wkst = wkst] :
        st \in ScenarioStarts, iv \in 1..3, wkst \in {0, 6}}

(* frequency = Weekly, interval = 2, byWeekday = [Monday, Wednesday],      *)
(* start = 2024-01-01, count = 4                                           *)
WeeklyScenario ==
    MkRule(WEEKLY, Civil(2024, 1, 1, 0, 0, 0, 0), 0, 2, [count |-> 4, until |-> NullDate],
           [NoBy EXCEPT !.wd = << <<0, 0>>, <<2, 0>> >>])

(* frequency = Monthly, byMonthDay = [31], start = 2024-01-31              *)
MonthlyScenario ==
    MkRule(MONTHLY, Civil(2024, 1, 31, 0, 0, 0, 0), 0, 1,
           [count |-> NULL, until |-> NullDate], [NoBy EXCEPT !.md = <<31>>])

(* the positions asked of the Mondays and Wednesdays of a month: the first, *)
(* the last, the second with the last, the first twice, the first with a   *)
(* position beyond the ten such days of January 2024, and a position       *)
(* counted from the end that lies before the first of them                 *)
SetposChoices ==
    {<<1>>, <<0 - 1>>, <<2, 0 - 1>>, <<1, 1>>, <<1, 40>>, <<0 - 40>>}

(* monthly on the Mondays and Wednesdays at the positions of bysetpos,     *)
(* from Monday 2024-01-01                                                  *)
SetposInputs ==
    {[MkRule(MONTHLY, Civil(2024, 1, 1, 0, 0, 0, 0), 0, 1,
             [count |-> MaxCount, until |-> NullDate],
             [NoBy EXCEPT !.wd = << <<0, 0>>, <<2, 0>> >>]) EXCEPT !.bysetpos = sp] :
        sp \in SetposChoices}

ScenarioInputs == WeeklyInputs \cup {MonthlyScenario} \cup SetposInputs

InitScenario ==
    /\ rule \in {NewRule(o) : o \in ScenarioInputs}
    /\ qdates = {}
    /\ it = IdleIt
    /\ log = <<>>
    /\ budget = MaxCalls
    /\ rset = RSetNone
    /\ slog = <<>>
    /\ sbudget = 0
    /\ adapter = NewAdapter(rule, 0)
    /\ tasklist = NewTaskList

(* all() is asked of the rules that end                                    *)
CallAllEnding ==
    /\ rule.options.count # NULL \/ rule.options.until # NullDate
    /\ CallAll

CallFirst == \E n \in 1..MaxFirst : next(n)

NextScenario ==
    \/ CallAllEnding
    \/ CallFirst
    \/ Period
    \/ Return

SpecScenario == InitScenario /\ [][NextScenario]_vars

(* the first day of the week of day d, for weeks that start on wkst        *)
weekStart(d, wkst) == d - ((getWeekday(d) + 7 - wkst) % 7)

(* the days a weekly rule with a weekday list visits: from the start on,   *)
(* on the weekdays of the list, in the weeks whose first day is a multiple *)
(* of 7 * interval days after the first day of the week of the start       *)
weeklyDays(o) ==
    {d \in DateOf(o.dtstart).d..(DateOf(o.dtstart).d + 7 * o.interval * (o.count + 1)) :
        /\ \E i \in 1..Len(o.byweekday) : o.byweekday[i][1] = getWeekday(d)
        /\ (weekStart(d, o.wkst) - weekStart(DateOf(o.dtstart).d, o.wkst))
               % (7 * o.interval) = 0}

(* s holds the first Len(s) days of D, in order, at the time of day t      *)
firstDaysOf(s, D, t) ==
    /\ \A i \in 1..Len(s) : s[i].d \in D /\ s[i].t = t
    /\ \A i \in 1..(Len(s) - 1) : s[i].d < s[i + 1].d
    /\ \A d \in D : Len(s) > 0 /\ d < s[Len(s)].d => \E i \in 1..Len(s) : s[i].d = d

(* C19: all() of the rule "every 2 weeks on Monday and Wednesday from      *)
(* Monday 2024-01-01, 4 times" returns 2024-01-01, 01-03, 01-15, 01-17;    *)
(* and all() of a weekly rule with interval k returns the first count days *)
(* on its weekdays in the weeks that start k * 7 days apart, counted from  *)
(* the week, aligned to the week start, that holds the start.              *)
C19_WeeklyInterval ==
    \A i \in 1..Len(log) :
        (log[i].method = "all" /\ log[i].cb = NULL /\ rule.orig.freq = WEEKLY)
        => /\ Len(log[i].value) = rule.orig.count
           /\ firstDaysOf(log[i].value, weeklyDays(rule.orig), DateOf(rule.orig.dtstart).t)
           /\ (rule.orig = WeeklyScenario
               => log[i].value = <<DateOf(Civil(2024, 1, 1, 0, 0, 0, 0)),
                                   DateOf(Civil(2024, 1, 3, 0, 0, 0, 0)),
                                   DateOf(Civil(2024, 1, 15, 0, 0, 0, 0)),
                                   DateOf(Civil(2024, 1, 17, 0, 0, 0, 0))>>)

(* all() returned four dates for the weekly scenario                       *)
C19_Witness ==
    /\ Len(log) > 0
    /\ log[1].method = "all" /\ log[1].cb = NULL /\ ~log[1].cached
    /\ Len(log[1].value) = 4
    /\ rule.orig = WeeklyScenario

(* the days of 2024 that are the 31st of a month                           *)
thirtyFirsts ==
    {toOrdinal(2024, m, 31) : m \in {x \in 1..12 : monthRange(2024, x) = 31}}

(* C20: for the rule "monthly on day 31 from 2024-01-31", the first n      *)
(* occurrences are the first n 31sts of 2024, each in a month that has a   *)
(* 31st and none moved to another day; the three after the start are       *)
(* 2024-03-31, 2024-05-31 and 2024-07-31.                                  *)
C20_MonthlyThirtyFirst ==
    \A i \in 1..Len(log) :
        (rule.orig = MonthlyScenario /\ log[i].method = "all" /\ log[i].cb # NULL)
        => /\ Len(log[i].value) = log[i].cb
           /\ firstDaysOf(log[i].value, thirtyFirsts, 0)
           /\ log[i].value[1] = DateOf(Civil(2024, 1, 31, 0, 0, 0, 0))
           /\ (log[i].cb >= 4
               => SubSeq(log[i].value, 2, 4) = <<DateOf(Civil(2024, 3, 31, 0, 0, 0, 0)),
                                                 DateOf(Civil(2024, 5, 31, 0, 0, 0, 0)),
                                                 DateOf(Civil(2024, 7, 31, 0, 0, 0, 0))>>)

(* the monthly scenario gave its start and the three occurrences after it  *)
C20_Witness ==
    \E i \in 1..Len(log) :
        /\ rule.orig = MonthlyScenario
        /\ log[i].method = "all" /\ log[i].cb = 4
        /\ Len(log[i].value) = 4

-----------------------------------------------------------------------------
(* Properties of the order of the dates (Spec)                             *)

(* C21: the dates a rule offers to the accept-sink, and so the list all()  *)
(* returns, are in strictly ascending order, in whatever order the byhour, *)
(* byminute and bysecond lists were given.                                 *)
C21_EmissionChronological ==
    Started => strictlyAscending(it.r.offered) /\ strictlyAscending(it.r.result)

-----------------------------------------------------------------------------
(* Properties of the clock (SpecScenario)                                  *)

(* C22: after every advance of the clock of a monthly or yearly rule the   *)
(* day of the clock is a day of its month, unless the year went beyond     *)
(* MAXYEAR: a day beyond the end of the new month was carried into the     *)
(* following months.                                                       *)
C22_DayCarried ==
    (/\ it.pc \in {"period", "done"}
     /\ it.adds > 0
     /\ rule.options.freq \in {YEARLY, MONTHLY}
     /\ it.c.year <= MAXYEAR)
    => (1 <= it.c.day /\ it.c.day <= monthRange(it.c.year, it.c.month))

-----------------------------------------------------------------------------
(* Properties of bysetpos (SpecScenario)                                   *)

(* the (day, time) pairs of the period of clock c that survived filtering, *)
(* in order                                                                *)
survivors(c, timeset, o) ==
    dayTimes(keptDays(c, o, getdayset(c, o).start, getdayset(c, o).end), timeset,
             YearOrdinal(c.year))

(* the survivors at the positions of bysetpos: positive positions counted  *)
(* from the first, negative ones from the last                             *)
atPositions(surv, bysetpos) ==
    {surv[bysetpos[j]] :
        j \in {x \in 1..Len(bysetpos) : bysetpos[x] >= 1 /\ bysetpos[x] <= Len(surv)}}
    \cup {surv[Len(surv) + 1 + bysetpos[j]] :
        j \in {x \in 1..Len(bysetpos) : bysetpos[x] <= 0 - 1
                                          /\ 0 - bysetpos[x] <= Len(surv)}}

(* the dates of a list of candidates                                       *)
validDates(cands) == SelectSeq(cands, LAMBDA x : x # NullDate)

(* C23: in each period of a rule with bysetpos the candidates offered for  *)
(* emission are exactly the survivors at the requested positions, each     *)
(* once; a position beyond the number of survivors gives no candidate.     *)
C23_SetposSelection ==
    (it.pc = "period" /\ notEmpty(rule.options.bysetpos))
    => /\ Range(validDates(candidates(it.c, it.timeset, rule.options)))
              = atPositions(survivors(it.c, it.timeset, rule.options), rule.options.bysetpos)
       /\ Len(validDates(candidates(it.c, it.timeset, rule.options)))
              = Cardinality(atPositions(survivors(it.c, it.timeset, rule.options),
                                        rule.options.bysetpos))

-----------------------------------------------------------------------------
(* Rules with several BY-rules at once, for January and February 2026      *)
(* (SpecFilter).  The rules hold no byweekno and no byeaster.              *)

FilterStart == Civil(2026, 1, 1, 0, 0, 0, 0)

FilterUntil == DateOf(Civil(2026, 2, 28, 0, 0, 0, 0))

(* bymonth, bymonthday, byweekday and byyearday, each given or not: in     *)
(* February or March, on the 13th or the last day of the month, on Friday, *)
(* on day 44 or 72 of the year or day 307 from its end                     *)
FilterChoices ==
    {NL, <<2, 3>>} \X {NL, <<13>>, <<0 - 1>>, <<13, 0 - 1>>}
        \X {NLP, << <<4, 0>> >>} \X {NL, <<44, 72, 0 - 307>>}

(* the same with the second Friday, of the month or of the months          *)
NthChoices ==
    {<<2, 3>>} \X {NL, <<13>>} \X {<< <<4, 2>> >>} \X {NL, <<44, 72, 0 - 307>>}

FilterInputs ==
    {[MkRule(x[1], FilterStart, 0, 1, [count |-> NULL, until |-> FilterUntil],
             [NoBy EXCEPT !.md = x[2][2], !.wd = x[2][3]])
         EXCEPT !.bymonth = x[2][1], !.byyearday = x[2][4]] :
        x \in ((YEARLY..DAILY) \X FilterChoices) \cup ({YEARLY, MONTHLY} \X NthChoices)}

InitFilter ==
    /\ rule \in {NewRule(o) : o \in FilterInputs}
    /\ qdates = {}
    /\ it = IdleIt
    /\ log = <<>>
    /\ budget = 1
    /\ rset = RSetNone
    /\ slog = <<>>
    /\ sbudget = 0
    /\ adapter = NewAdapter(rule, 0)
    /\ tasklist = NewTaskList

NextFilter ==
    \/ CallAllEnding
    \/ Period
    \/ Return

SpecFilter == InitFilter /\ [][NextFilter]_vars

(* the year, the month and the day of the month of day d of 2026           *)
civilOf(d) ==
    LET year == 2026
        month == CHOOSE m \in 1..12 :
                     /\ toOrdinal(year, m, 1) <= d
                     /\ d < toOrdinal(year, m, 1) + monthRange(year, m)
    IN  [year |-> year, month |-> month, day |-> d - toOrdinal(year, month, 1) + 1,
         yearday |-> d - YearOrdinal(year) + 1]

(* day d is the n-th weekday wd of its month, or of its year for a yearly  *)
(* rule without bymonth                                                    *)
isNthWeekday(d, wd, n, o) ==
    /\ getWeekday(d) = wd
    /\ IF o.freq = YEARLY /\ empty(o.bymonth)
       THEN ((civilOf(d).yearday - 1) \div 7) + 1 = n
       ELSE ((civilOf(d).day - 1) \div 7) + 1 = n

(* day d satisfies every active day rule of the resolved options o         *)
satisfiesAll(d, o) ==
    /\ notEmpty(o.bymonth) => includes(o.bymonth, civilOf(d).month)
    /\ notEmpty(o.byweekday) => includes(o.byweekday, getWeekday(d))
    /\ notEmptyP(o.bynweekday)
       => \E k \in 1..Len(o.bynweekday) :
              isNthWeekday(d, o.bynweekday[k][1], o.bynweekday[k][2], o)
    /\ (notEmpty(o.bymonthday) \/ notEmpty(o.bynmonthday))
       => \/ includes(o.bymonthday, civilOf(d).day)
          \/ includes(o.bynmonthday,
                      civilOf(d).day - monthRange(civilOf(d).year, civilOf(d).month) - 1)
    /\ notEmpty(o.byyearday)
       => \/ includes(o.byyearday, civilOf(d).yearday)
          \/ includes(o.byyearday, civilOf(d).yearday - yearlenOf(civilOf(d).year) - 1)

(* the days from the start to the until of o that satisfy every rule       *)
daysSatisfying(o) ==
    {d \in DateOf(o.dtstart).d..o.until.d : satisfiesAll(d, o)}

-----------------------------------------------------------------------------
(* A set whose members fall within one second (SpecExcl): a daily rule     *)
(* from 19:56:56.500, an exrule for every second day from the same moment, *)
(* and rdates a quarter second before and after it.                        *)

MaxExclCalls == 2

ExclRule ==
    MkRule(DAILY, SetStart, 500, 1, [count |-> MaxCount + 1, until |-> NullDate], NoBy)

ExclExrule ==
    MkRule(DAILY, SetStart, 500, 2, [count |-> MaxCount, until |-> NullDate], NoBy)

ExclRdates == {<<>>, <<Shift(DateOf(SetStart), DAILY, 0, 250)>>,
               <<Shift(DateOf(SetStart), DAILY, 0, 750)>>,
               <<Shift(DateOf(SetStart), DAILY, 0, 250), Shift(DateOf(SetStart), DAILY, 2, 250)>>}

(* the set after rrule(), exrule() and rdate() were called                 *)
InitExcl ==
    /\ rule \in {NewRule(o) : o \in NoSlotInputs}
    /\ qdates = {}
    /\ it = IdleIt
    /\ log = <<>>
    /\ budget = 0
    /\ rset \in {[RSetNone EXCEPT !.rrule = rr, !.exrule = addRule(NewRule(ExclExrule), <<>>),
                                  !.rdate = rd] :
                    rr \in {<<>>, addRule(NewRule(ExclRule), <<>>)}, rd \in ExclRdates}
    /\ slog = <<>>
    /\ sbudget = MaxExclCalls
    /\ adapter = NewAdapter(rule, 0)
    /\ tasklist = NewTaskList

NextExcl ==
    \/ SetAll
    \/ SetNext
    \/ SetBetween
    \/ SetBefore
    \/ SetAfter

SpecExcl == InitExcl /\ [][NextExcl]_vars

(* C25: no date a query of the set returned is an occurrence of one of the *)
(* exrules of the set, also when candidates of the rules and the rdates    *)
(* fall within the same second.                                            *)
C25_ExruleExcludes ==
    \A i \in 1..Len(slog) : \A k \in 1..Len(slog[i].exrule) :
        Range(slog[i].value) \cap Range(occurrencesOf(slog[i].exrule[k])) = {}

-----------------------------------------------------------------------------
(* Properties of the month-day lists (SpecAdapter)                         *)

(* C26: in the resolved options of the rule, after construction and after  *)
(* every setter of the adapter, bymonthday holds only values above 0 and   *)
(* bynmonthday only values below 0.                                        *)
C26_MonthDayLists ==
    /\ isPresentL(rule.options.bymonthday)
       => \A i \in 1..Len(rule.options.bymonthday) : rule.options.bymonthday[i] > 0
    /\ isPresentL(rule.options.bynmonthday)
       => \A i \in 1..Len(rule.options.bynmonthday) : rule.options.bynmonthday[i] < 0

-----------------------------------------------------------------------------
(* Properties of the two views of the adapter's rule (SpecAdapter)         *)

(* the occurrences of the rule that rule.toString() denotes                *)
denoted == occurrencesOf(parseString(optionsToString(rule.orig)))

(* C27: after any setter calls of the adapter, next(n) returns the first n *)
(* occurrences of the rule made from the options that toString() writes.   *)
C27_ViewsAgree ==
    (it.pc = "done" /\ it.r.cb # NULL)
    => it.r.result = SubSeq(denoted, 1, Min(it.r.cb, Len(denoted)))

-----------------------------------------------------------------------------
(* Properties of the subscriptions (SpecSubs)                              *)

(* C28: a function returned by subscribe removes the subscription of that  *)
(* subscribe call and no other, however often it is called: the            *)
(* subscriptions held are those whose own function was not called, and     *)
(* their ids are pairwise distinct.                                        *)
C28_UnsubscribeOwn ==
    /\ {adapter.subs[i].hook : i \in 1..Len(adapter.subs)} = liveHooks(adapter)
    /\ \A i, j \in 1..Len(adapter.subs) :
           adapter.subs[i].id = adapter.subs[j].id => i = j

-----------------------------------------------------------------------------
(* Properties of the set queries with a callback (SpecSet)                 *)

(* a set with the members of the logged query e and empty caches           *)
setOf(e) ==
    [RSetNone EXCEPT !.rrule = [k \in 1..Len(e.rrule) |-> NewRule(e.rrule[k])],
                     !.exrule = [k \in 1..Len(e.exrule) |-> NewRule(e.exrule[k])],
                     !.rdate = e.rdate, !.exdate = e.exdate]

(* the merged dates of the set of the logged query e, in order             *)
mergedOf(e) == iterSet(IterResult("all", NoArgs, NULL), setOf(e)).value

(* C29: a query of the set with a callback that accepts the first n dates  *)
(* returns the n chronologically first dates of the merged dates of the    *)
(* set: after the callback returned false no date is added.                *)
C29_CallbackEndsSet ==
    \A i \in 1..Len(slog) :
        slog[i].cb # NULL
        => slog[i].value = SubSeq(mergedOf(slog[i]), 1,
                                  Min(slog[i].cb, Len(mergedOf(slog[i]))))

-----------------------------------------------------------------------------
(* The task list: a config of at most MaxLines lines is parsed, the filter *)
(* list is built from the parsed config, and tasks are offered to the      *)
(* list.  The rule, the set and the adapter take no part.                  *)

MaxLines == 2

ConfigLines ==
    {<<"due", "true">>, <<"due", "false">>, <<"due", "yes">>,
     <<"no-due", "true">>, <<"no-due", "false">>,
     <<"overdue", "true">>, <<"completed", "true">>, <<"completed", "false">>,
     <<"select-day", "2024-01-03">>, <<"select-week", "2024-01-03">>,
     <<"select-tags", "work">>, <<"omit-tags", "[work, home]">>,
     <<"sort", "due">>, <<"group", "none">>, <<"due">>, <<"">>}

ConfigInputs == UNION {[1..k -> ConfigLines] : k \in 0..MaxLines}

TaskInputs ==
    [due : {NULL, 2, 3, 7, 10}, hideUntil : {NULL, 5}, checked : BOOLEAN,
     tags : {<<>>, <<"work/meetings">>, <<"home">>}]

InitTasks ==
    /\ rule \in {NewRule(o) : o \in NoSlotInputs}
    /\ qdates = {}
    /\ it = IdleIt
    /\ log = <<>>
    /\ budget = 0
    /\ rset = RSetNone
    /\ slog = <<>>
    /\ sbudget = 0
    /\ adapter = NewAdapter(rule, 0)
    /\ tasklist = NewTaskList

(* parseTaskListConfig(lines) *)
ParseConfig ==
    /\ tasklist.pc = "new"
    /\ \E lines \in ConfigInputs :
         tasklist' = [tasklist EXCEPT !.pc = "parsed", !.lines = lines,
                                      !.state = parseTaskListConfig(lines)]
    /\ UNCHANGED <<ruleVars, setVars, adapter>>

(* filtersFromConfig(state) *)
BuildFilters ==
    /\ tasklist.pc = "parsed"
    /\ tasklist' = [tasklist EXCEPT !.pc = "built",
                                    !.filters = filtersFromConfig(tasklist.state)]
    /\ UNCHANGED <<ruleVars, setVars, adapter>>

(* a task is offered to the filter list *)
OfferTask ==
    /\ tasklist.pc \in {"built", "offered"}
    /\ \E task \in TaskInputs :
         tasklist' = [tasklist EXCEPT !.pc = "offered", !.task = task,
                                      !.pass = passes(tasklist.filters, task)]
    /\ UNCHANGED <<ruleVars, setVars, adapter>>

NextTasks == ParseConfig \/ BuildFilters \/ OfferTask

SpecTasks == InitTasks /\ [][NextTasks]_vars

(* C30: a task with hideUntil set never passes; with due and noDue both    *)
(* true no due-based filter is in the list; with only due true a task that *)
(* passes has a due date; with only noDue true a task that passes has no   *)
(* due date; with both false no task passes.                               *)
C30_DueFilters ==
    LET state == tasklist.state
        dueBased == {i \in DOMAIN tasklist.filters :
                       tasklist.filters[i].kind \in {"due", "noDue"}}
    IN /\ tasklist.pc \in {"built", "offered"} =>
            ((state.due /\ state.noDue) => dueBased = {})
       /\ tasklist.pc = "offered" =>
            /\ tasklist.task.hideUntil # NULL => ~tasklist.pass
            /\ (state.due /\ ~state.noDue /\ tasklist.pass) => tasklist.task.due # NULL
            /\ (~state.due /\ state.noDue /\ tasklist.pass) => tasklist.task.due = NULL
            /\ (~state.due /\ ~state.noDue) => ~tasklist.pass

====
